---- MODULE Spec2Model ----
(***************************************************************************)
(* Model of src/app.py: the AdvancedPredictionEngine (lookup tables,       *)
(* derivation functions, template selection), the module-level random      *)
(* source it seeds and resets, and the /api/generate-predictions route     *)
(* that validates a JSON payload and runs the engine, served by several    *)
(* request-handler threads.                                                *)
(*                                                                         *)
(* Text is modelled at two levels.  Request fields that the code inspects  *)
(* character by character (birth_date, birth_time, name) are sequences of  *)
(* one-character tokens; texts the code only builds and passes on are      *)
(* TLA+ strings, built with \o as the f-strings build them.                *)
(***************************************************************************)
EXTENDS Integers, Sequences, FiniteSets, TLC

(***************************************************************************)
(* Bounds of the model.                                                    *)
(***************************************************************************)
\* the clock runs over the days 0..MaxNow (day 0 is 1 January 2025)
MaxNow == 1

\* at most MaxFiles temporary files exist at a time
MaxFiles == 3

(***************************************************************************)
(* Python values and built-ins used by the code.                           *)
(***************************************************************************)
\* dict.get(key, default)
Get(d, k, default) == IF k \in DOMAIN d THEN d[k] ELSE default

\* the empty dict {}, the default of zodiac_characteristics.get(sign, {})
EmptyDict == <<>>

\* an index that starts one place late
AtModNext(seq, i) == seq[((i + 1) % Len(seq)) + 1]

\* seq[i % len(seq)] for a 0-based index i
AtMod(seq, i) == seq[(i % Len(seq)) + 1]

\* seq[:n], which never raises and stops at the end of seq
Prefix(seq, n) == SubSeq(seq, 1, IF n < Len(seq) THEN n ELSE Len(seq))

\* seq[a:b] for 0 <= a <= b
Slice(seq, a, b) ==
    SubSeq(seq, (IF a < Len(seq) THEN a ELSE Len(seq)) + 1, IF b < Len(seq) THEN b ELSE Len(seq))

AsciiDigits == {"0", "1", "2", "3", "4", "5", "6", "7", "8", "9"}

\* ARABIC-INDIC DIGIT ZERO..NINE: decimal digits that are not ASCII
ArabicIndicDigits ==
    {"U+0660", "U+0661", "U+0662", "U+0663", "U+0664",
     "U+0665", "U+0666", "U+0667", "U+0668", "U+0669"}

\* SUPERSCRIPT TWO: a digit (str.isdigit accepts it) that is not a decimal
\* digit (int rejects it)
SuperscriptDigits == {"U+00B2"}

\* the characters int() reads as a decimal digit, with their values
DecimalValue ==
    ("0" :> 0) @@ ("1" :> 1) @@ ("2" :> 2) @@ ("3" :> 3) @@ ("4" :> 4) @@
    ("5" :> 5) @@ ("6" :> 6) @@ ("7" :> 7) @@ ("8" :> 8) @@ ("9" :> 9) @@
    ("U+0660" :> 0) @@ ("U+0661" :> 1) @@ ("U+0662" :> 2) @@ ("U+0663" :> 3) @@
    ("U+0664" :> 4) @@ ("U+0665" :> 5) @@ ("U+0666" :> 6) @@ ("U+0667" :> 7) @@
    ("U+0668" :> 8) @@ ("U+0669" :> 9)

\* str.isdigit(): non-empty and every character a digit, ASCII or not
str_isdigit(s) ==
    /\ Len(s) > 0
    /\ \A i \in 1..Len(s) : s[i] \in AsciiDigits \cup ArabicIndicDigits \cup SuperscriptDigits

RECURSIVE DecimalNumber(_)
DecimalNumber(s) ==
    IF Len(s) = 0 THEN 0
    ELSE 10 * DecimalNumber(SubSeq(s, 1, Len(s) - 1)) + DecimalValue[s[Len(s)]]

\* int(s) of a str: the number, or ValueError
int(s) ==
    IF Len(s) > 0 /\ \A i \in 1..Len(s) : s[i] \in DOMAIN DecimalValue
    THEN [ok |-> TRUE, val |-> DecimalNumber(s)]
    ELSE [ok |-> FALSE, val |-> 0]

\* ord(char) of the characters that occur in names
ord ==
    ("T" :> 84) @@ ("e" :> 101) @@ ("s" :> 115) @@ ("t" :> 116) @@
    ("A" :> 65) @@ ("b" :> 98) @@ ("a" :> 97) @@ ("x" :> 120)

RECURSIVE SumOrd(_)
SumOrd(s) == IF Len(s) = 0 THEN 0 ELSE ord[Head(s)] + SumOrd(Tail(s))

(***************************************************************************)
(* JSON values of a request payload.  A value is a str (its characters in  *)
(* s), a number (in n), or absent (the key is not in the object).          *)
(***************************************************************************)
Str(chars) == [t |-> "str", s |-> chars, n |-> 0]
Num(k) == [t |-> "int", s |-> <<>>, n |-> k]
Absent == [t |-> "absent", s |-> <<>>, n |-> 0]

\* `not value`: the empty str and the number 0 are falsy
Falsy(v) == \/ v.t = "str" /\ Len(v.s) = 0
            \/ v.t = "int" /\ v.n = 0

(***************************************************************************)
(* setup_prediction_templates: the engine's tables.                        *)
(***************************************************************************)
zodiac_characteristics ==
    ("Aries" :> [element |-> "Fire", ruler |-> "Mars", traits |-> <<"courageous", "energetic", "competitive">>]) @@
    ("Taurus" :> [element |-> "Earth", ruler |-> "Venus", traits |-> <<"patient", "reliable", "devoted">>]) @@
    ("Gemini" :> [element |-> "Air", ruler |-> "Mercury", traits |-> <<"adaptable", "curious", "communicative">>]) @@
    ("Cancer" :> [element |-> "Water", ruler |-> "Moon", traits |-> <<"intuitive", "emotional", "protective">>]) @@
    ("Leo" :> [element |-> "Fire", ruler |-> "Sun", traits |-> <<"confident", "generous", "creative">>]) @@
    ("Virgo" :> [element |-> "Earth", ruler |-> "Mercury", traits |-> <<"analytical", "practical", "helpful">>]) @@
    ("Libra" :> [element |-> "Air", ruler |-> "Venus", traits |-> <<"diplomatic", "social", "fair-minded">>]) @@
    ("Scorpio" :> [element |-> "Water", ruler |-> "Mars/Pluto", traits |-> <<"passionate", "determined", "intense">>]) @@
    ("Sagittarius" :> [element |-> "Fire", ruler |-> "Jupiter", traits |-> <<"optimistic", "adventurous", "philosophical">>]) @@
    ("Capricorn" :> [element |-> "Earth", ruler |-> "Saturn", traits |-> <<"disciplined", "responsible", "ambitious">>]) @@
    ("Aquarius" :> [element |-> "Air", ruler |-> "Saturn/Uranus", traits |-> <<"innovative", "independent", "humanitarian">>]) @@
    ("Pisces" :> [element |-> "Water", ruler |-> "Jupiter/Neptune", traits |-> <<"compassionate", "artistic", "intuitive">>])

nakshatra_influences ==
    ("Ashwini" :> [deity |-> "Ashwini Kumaras", quality |-> "quick and sharp"]) @@
    ("Bharani" :> [deity |-> "Yama", quality |-> "transformative"]) @@
    ("Krittika" :> [deity |-> "Agni", quality |-> "fiery and determined"]) @@
    ("Rohini" :> [deity |-> "Brahma", quality |-> "creative and fertile"]) @@
    ("Mrigashira" :> [deity |-> "Soma", quality |-> "explorative and curious"]) @@
    ("Ardra" :> [deity |-> "Rudra", quality |-> "intense and transformative"]) @@
    ("Punarvasu" :> [deity |-> "Aditi", quality |-> "renewing and abundant"]) @@
    ("Pushya" :> [deity |-> "Brihaspati", quality |-> "nurturing and wise"]) @@
    ("Ashlesha" :> [deity |-> "Nagas", quality |-> "mysterious and intuitive"]) @@
    ("Magha" :> [deity |-> "Pitris", quality |-> "authoritative and traditional"]) @@
    ("Purva Phalguni" :> [deity |-> "Bhaga", quality |-> "creative and luxurious"]) @@
    ("Uttara Phalguni" :> [deity |-> "Aryaman", quality |-> "helpful and supportive"]) @@
    ("Hasta" :> [deity |-> "Savitar", quality |-> "skillful and precise"]) @@
    ("Chitra" :> [deity |-> "Vishwakarma", quality |-> "artistic and architectural"]) @@
    ("Swati" :> [deity |-> "Vayu", quality |-> "independent and changeable"]) @@
    ("Vishakha" :> [deity |-> "Indra-Agni", quality |-> "determined and goal-oriented"]) @@
    ("Anuradha" :> [deity |-> "Mitra", quality |-> "friendly and collaborative"]) @@
    ("Jyeshtha" :> [deity |-> "Indra", quality |-> "protective and authoritative"]) @@
    ("Mula" :> [deity |-> "Nirriti", quality |-> "transformative and investigative"]) @@
    ("Purva Ashadha" :> [deity |-> "Apah", quality |-> "influential and invincible"]) @@
    ("Uttara Ashadha" :> [deity |-> "Vishvedevas", quality |-> "victorious and universal"]) @@
    ("Shravana" :> [deity |-> "Vishnu", quality |-> "listening and learning"]) @@
    ("Dhanishta" :> [deity |-> "Vasus", quality |-> "wealthy and musical"]) @@
    ("Shatabhisha" :> [deity |-> "Varuna", quality |-> "healing and mysterious"]) @@
    ("Purva Bhadrapada" :> [deity |-> "Aja Ekapada", quality |-> "fiery and transformative"]) @@
    ("Uttara Bhadrapada" :> [deity |-> "Ahirbudhnya", quality |-> "calm and profound"]) @@
    ("Revati" :> [deity |-> "Pushan", quality |-> "nurturing and abundant"])

\* the four verses, named by their opening words (the source holds them in
\* Devanagari)
sanskrit_slokas ==
    <<"vakratunda mahakaya suryakoti samaprabha",
      "gajananam bhutaganadisevitam",
      "ekadantam mahakayam lambodaram gajananam",
      "sumukhashchaikadantashcha kapilo gajakarnakah">>

(***************************************************************************)
(* Astrological derivation functions.                                      *)
(***************************************************************************)
\* the if/elif chain of calculate_zodiac_sign
zodiac_branches(day, month) ==
    IF (month = 3 /\ day >= 21) \/ (month = 4 /\ day <= 19) THEN <<"Aries", "Mesha">>
    ELSE IF (month = 4 /\ day >= 20) \/ (month = 5 /\ day <= 20) THEN <<"Taurus", "Vrishabha">>
    ELSE IF (month = 5 /\ day >= 21) \/ (month = 6 /\ day <= 20) THEN <<"Gemini", "Mithuna">>
    ELSE IF (month = 6 /\ day >= 21) \/ (month = 7 /\ day <= 22) THEN <<"Cancer", "Karka">>
    ELSE IF (month = 7 /\ day >= 23) \/ (month = 8 /\ day <= 22) THEN <<"Leo", "Simha">>
    ELSE IF (month = 8 /\ day >= 23) \/ (month = 9 /\ day <= 22) THEN <<"Virgo", "Kanya">>
    ELSE IF (month = 9 /\ day >= 23) \/ (month = 10 /\ day <= 22) THEN <<"Libra", "Tula">>
    ELSE IF (month = 10 /\ day >= 23) \/ (month = 11 /\ day <= 21) THEN <<"Scorpio", "Vrishchika">>
    ELSE IF (month = 11 /\ day >= 22) \/ (month = 12 /\ day <= 21) THEN <<"Sagittarius", "Dhanu">>
    ELSE IF (month = 12 /\ day >= 22) \/ (month = 1 /\ day <= 19) THEN <<"Capricorn", "Makara">>
    ELSE IF (month = 1 /\ day >= 20) \/ (month = 2 /\ day <= 18) THEN <<"Aquarius", "Kumbha">>
    ELSE <<"Pisces", "Meena">>

\* a chain whose Aries branch starts a day late (day > 21)
calculate_zodiac_sign_aries_late(day, month) ==
    IF month = 3 /\ day = 21 THEN <<"Pisces", "Meena">> ELSE zodiac_branches(day, month)

\* calculate_zodiac_sign(day, month): (sign, sanskrit name)
calculate_zodiac_sign(day, month) == zodiac_branches(day, month)

ascendant_map ==
    (0 :> <<"Aries", "Mesha">>) @@ (2 :> <<"Taurus", "Vrishabha">>) @@ (4 :> <<"Gemini", "Mithuna">>) @@
    (6 :> <<"Cancer", "Karka">>) @@ (8 :> <<"Leo", "Simha">>) @@ (10 :> <<"Virgo", "Kanya">>) @@
    (12 :> <<"Libra", "Tula">>) @@ (14 :> <<"Scorpio", "Vrishchika">>) @@ (16 :> <<"Sagittarius", "Dhanu">>) @@
    (18 :> <<"Capricorn", "Makara">>) @@ (20 :> <<"Aquarius", "Kumbha">>) @@ (22 :> <<"Pisces", "Meena">>)

\* the keys tried in ascending order
calculate_ascendant_ascending(hour) ==
    LET below == {k \in DOMAIN ascendant_map : hour >= k}
    IN  IF below # {}
        THEN ascendant_map[CHOOSE k \in below : \A j \in below : k <= j]
        ELSE <<"Aries", "Mesha">>

\* calculate_ascendant(hour): the keys are tried in descending order and the
\* first one with hour >= key wins, i.e. the greatest key <= hour
calculate_ascendant(hour) ==
    LET below == {k \in DOMAIN ascendant_map : hour >= k}
    IN  IF below # {}
        THEN ascendant_map[CHOOSE k \in below : \A j \in below : j <= k]
        ELSE <<"Aries", "Mesha">>

nakshatras ==
    <<"Ashwini", "Bharani", "Krittika", "Rohini", "Mrigashira", "Ardra",
      "Punarvasu", "Pushya", "Ashlesha", "Magha", "Purva Phalguni", "Uttara Phalguni",
      "Hasta", "Chitra", "Swati", "Vishakha", "Anuradha", "Jyeshtha",
      "Mula", "Purva Ashadha", "Uttara Ashadha", "Shravana", "Dhanishta", "Shatabhisha",
      "Purva Bhadrapada", "Uttara Bhadrapada", "Revati">>

\* an index counted from the day itself
nakshatra_index_from_day(day) == day % Len(nakshatras)

\* an index that is not wrapped into the list
nakshatra_index_unwrapped(day) == day - 1

\* the 0-based list index calculate_nakshatra uses
nakshatra_index(day) == (day - 1) % Len(nakshatras)

\* an index that stops at the end of the list instead of wrapping
calculate_nakshatra_clamped(day) ==
    [ok |-> TRUE, val |-> nakshatras[IF day > Len(nakshatras) THEN Len(nakshatras)
                                     ELSE nakshatra_index(day) + 1]]

\* calculate_nakshatra(day): the name, or IndexError when the index is outside
\* the list
calculate_nakshatra(day) ==
    LET i == nakshatra_index(day)
    IN  IF i + 1 \in DOMAIN nakshatras
        THEN [ok |-> TRUE, val |-> nakshatras[i + 1]]
        ELSE [ok |-> FALSE, val |-> "IndexError"]

\* the table without its entry for 9
lucky_numbers_without_9 ==
    (1 :> <<1, 4, 7>>) @@ (2 :> <<2, 5, 8>>) @@ (3 :> <<3, 6, 9>>) @@ (4 :> <<1, 4, 7>>) @@
    (5 :> <<2, 5, 8>>) @@ (6 :> <<3, 6, 9>>) @@ (7 :> <<1, 4, 7>>) @@ (8 :> <<2, 5, 8>>)

lucky_numbers ==
    (1 :> <<1, 4, 7>>) @@ (2 :> <<2, 5, 8>>) @@ (3 :> <<3, 6, 9>>) @@ (4 :> <<1, 4, 7>>) @@
    (5 :> <<2, 5, 8>>) @@ (6 :> <<3, 6, 9>>) @@ (7 :> <<1, 4, 7>>) @@ (8 :> <<2, 5, 8>>) @@
    (9 :> <<3, 6, 9>>)

color_map ==
    (1 :> "Red") @@ (2 :> "Orange") @@ (3 :> "Yellow") @@ (4 :> "Green") @@
    (5 :> "Blue") @@ (6 :> "Indigo") @@ (7 :> "Violet") @@ (8 :> "Pink") @@ (9 :> "Gold")

day_map ==
    (0 :> "Monday") @@ (1 :> "Tuesday") @@ (2 :> "Wednesday") @@ (3 :> "Thursday") @@
    (4 :> "Friday") @@ (5 :> "Saturday") @@ (6 :> "Sunday")

\* lucky_num without the remapping of 0
lucky_num_raw(day, month) == (day + month) % 9

\* lucky_num of get_lucky_elements
lucky_num_of(day, month) ==
    LET r == (day + month) % 9 IN IF r = 0 THEN 9 ELSE r

\* get_lucky_elements(day, month)
get_lucky_elements(day, month) ==
    LET lucky_num == lucky_num_of(day, month)
    IN  [lucky_number |-> Get(lucky_numbers, lucky_num, <<lucky_num>>),
         lucky_color |-> Get(color_map, lucky_num, "Blue"),
         lucky_day |-> Get(day_map, (day + month) % 7, "Thursday")]

(***************************************************************************)
(* Template selection.                                                     *)
(***************************************************************************)
\* the list overview_templates of generate_personalized_overview
overview_templates(zodiac_sign, ascendant, nakshatra) ==
            <<"Based on your " \o zodiac_sign \o " Sun sign and " \o ascendant \o " Ascendant, 2025-2026 brings significant planetary shifts. ",
              "Your " \o nakshatra \o " Nakshatra combined with " \o zodiac_sign \o " zodiac indicates a transformative period in 2025-2026. ",
              "The alignment of planets for your " \o zodiac_sign \o " chart suggests 2025-2026 will be a year of growth and opportunities. ">>

\* element_influences without the Water entry
element_influences_no_water ==
    ("Fire" :> "Mars and Jupiter's transit will energize your natural leadership qualities and bring new beginnings.") @@
    ("Earth" :> "Saturn's steady influence will help you build solid foundations and achieve long-term goals.") @@
    ("Air" :> "Mercury and Venus will enhance your communication skills and bring intellectual growth.")

\* the dict element_influences of generate_personalized_overview
element_influences ==
            ("Fire" :> "Mars and Jupiter's transit will energize your natural leadership qualities and bring new beginnings.") @@
            ("Earth" :> "Saturn's steady influence will help you build solid foundations and achieve long-term goals.") @@
            ("Air" :> "Mercury and Venus will enhance your communication skills and bring intellectual growth.") @@
            ("Water" :> "The Moon's cycles will deepen your intuition and emotional connections throughout the year.")

\* birth_number = (day % 9) or 9
birth_number_of(day) == IF day % 9 = 0 THEN 9 ELSE day % 9

\* generate_personalized_overview(zodiac_sign, ascendant, nakshatra, birth_data);
\* its callers have already parsed the same birth_date, so int() succeeds
generate_personalized_overview(zodiac_sign, ascendant, nakshatra, birth_data) ==
    LET zodiac_info == Get(zodiac_characteristics, zodiac_sign, EmptyDict)
        day == int(Prefix(birth_data.birth_date.s, 2)).val
        birth_number == birth_number_of(day)
    IN  AtMod(overview_templates(zodiac_sign, ascendant, nakshatra), birth_number)
          \o Get(element_influences, Get(zodiac_info, "element", ""),
                 "Planetary movements favor personal and professional development.")

\* the dict literal career_templates of generate_career_prediction, for a sign
career_templates(zodiac_sign) ==
    LET zodiac_info == Get(zodiac_characteristics, zodiac_sign, EmptyDict)
        ruler == Get(zodiac_info, "ruler", "")
        traits == Get(zodiac_info, "traits", <<>>)
    IN
            ("Fire" :>
               <<"Your natural " \o (IF Len(traits) > 0 THEN traits[1] ELSE "leadership") \o " qualities will shine in professional settings. Excellent time for taking initiative and starting new projects.",
                 ruler \o "'s influence brings opportunities for advancement. Your competitive spirit will help you overcome challenges.",
                 "Creative projects and leadership roles favor you. Your energy and confidence will impress superiors.">>) @@
            ("Earth" :>
               <<"Systematic planning and patience will yield long-term career benefits. Your reliable nature will be recognized.",
                 "Practical skills and attention to detail will lead to success. " \o ruler \o "'s steady influence supports gradual growth.",
                 "Building solid foundations in your career. Your disciplined approach will bring stability and recognition.">>) @@
            ("Air" :>
               <<"Communication and networking will open new doors. Your " \o (IF Len(traits) > 1 THEN traits[2] ELSE "adaptable") \o " nature helps in changing environments.",
                 "Intellectual pursuits and learning new skills will benefit your career. " \o ruler \o " enhances your mental agility.",
                 "Collaboration and teamwork bring success. Your social skills will help build important professional relationships.">>) @@
            ("Water" :>
               <<"Your intuition will guide you in important career decisions. Emotional intelligence becomes your strength.",
                 "Creative and nurturing professions favor you. " \o ruler \o "'s influence deepens your understanding of people.",
                 "Trust your instincts in professional matters. Your protective nature will serve you well in leadership.">>)

\* generate_career_prediction: lines 218-249
generate_career_prediction(zodiac_sign, nakshatra, month_index, birth_data) ==
    LET zodiac_info == Get(zodiac_characteristics, zodiac_sign, EmptyDict)
        element == Get(zodiac_info, "element", "Fire")
        templates == Get(career_templates(zodiac_sign), element, career_templates(zodiac_sign)["Fire"])
    IN  AtMod(templates, month_index)

\* the dict literal finance_templates of generate_finance_prediction, for a sign
finance_templates(zodiac_sign) ==
    LET zodiac_info == Get(zodiac_characteristics, zodiac_sign, EmptyDict)
    IN
            ("Fire" :>
               <<"Investments in technology and innovation sectors show promise. Your bold approach to finances may bring unexpected gains.",
                 "Income through leadership roles and entrepreneurial ventures. Avoid impulsive spending and focus on long-term wealth.",
                 "Financial growth through taking calculated risks. Your natural confidence in money matters serves you well.">>) @@
            ("Earth" :>
               <<"Stable financial growth through traditional investments. Real estate and long-term savings plans favor you.",
                 "Systematic financial planning yields excellent results. Your practical approach to money management brings security.",
                 "Patience in financial matters rewards you. Conservative investments and savings strategies work best.">>) @@
            ("Air" :>
               <<"Multiple income sources through communication and networking. Intellectual property and digital ventures show promise.",
                 "Financial gains through partnerships and collaborations. Your adaptability helps you seize new opportunities.",
                 "Investment in education and skills development brings future financial benefits. Stay open to unconventional ideas.">>) @@
            ("Water" :>
               <<"Intuitive financial decisions prove beneficial. Investments in healing arts and creative fields show potential.",
                 "Emotional stability leads to better financial choices. Trust your instincts regarding money matters.",
                 "Financial security through nurturing existing resources. Avoid emotional spending and focus on practical needs.">>)

\* generate_finance_prediction: lines 251-280
generate_finance_prediction(zodiac_sign, nakshatra, month_index, birth_data) ==
    LET zodiac_info == Get(zodiac_characteristics, zodiac_sign, EmptyDict)
        element == Get(zodiac_info, "element", "Fire")
        templates == Get(finance_templates(zodiac_sign), element, finance_templates(zodiac_sign)["Fire"])
    IN  AtMod(templates, month_index)

\* the dict literal relationship_templates of generate_relationship_prediction, for a sign
relationship_templates(zodiac_sign) ==
    LET zodiac_info == Get(zodiac_characteristics, zodiac_sign, EmptyDict)
        traits == Get(zodiac_info, "traits", <<>>)
    IN
            ("Fire" :>
               <<"Your " \o (IF Len(traits) > 0 THEN traits[1] ELSE "passionate") \o " nature enhances romantic relationships. Social gatherings bring meaningful connections.",
                 "Leadership in relationships works well. Your confidence attracts partners who appreciate strong personalities.",
                 "Adventurous activities with loved ones strengthen bonds. Your energetic approach to relationships brings joy.">>) @@
            ("Earth" :>
               <<"Stable and reliable relationships flourish. Your consistent nature builds trust and deep connections.",
                 "Practical support and loyalty strengthen partnerships. Your devoted approach to relationships is appreciated.",
                 "Building long-term foundations in relationships. Your patience helps resolve any conflicts peacefully.">>) @@
            ("Air" :>
               <<"Intellectual connections and good communication enhance relationships. Your curious nature makes you interesting.",
                 "Social networks and group activities bring new friendships. Your adaptability helps in various social situations.",
                 "Meaningful conversations deepen existing relationships. Your diplomatic nature helps maintain harmony.">>) @@
            ("Water" :>
               <<"Emotional depth and intuition strengthen bonds. Your compassionate nature nurtures relationships.",
                 "Intimate connections and shared feelings bring closeness. Your protective instincts create safe spaces.",
                 "Healing and supportive relationships flourish. Your intuitive understanding of others' needs is valuable.">>)

\* generate_relationship_prediction: lines 282-312
generate_relationship_prediction(zodiac_sign, nakshatra, month_index, birth_data) ==
    LET zodiac_info == Get(zodiac_characteristics, zodiac_sign, EmptyDict)
        element == Get(zodiac_info, "element", "Fire")
        templates == Get(relationship_templates(zodiac_sign), element, relationship_templates(zodiac_sign)["Fire"])
    IN  AtMod(templates, month_index)

\* the dict literal health_templates of generate_health_prediction, for a sign
health_templates(zodiac_sign) ==
    LET zodiac_info == Get(zodiac_characteristics, zodiac_sign, EmptyDict)
    IN
            ("Fire" :>
               <<"Focus on managing stress and anger. Regular exercise channels your abundant energy positively.",
                 "Pay attention to headaches and inflammation. Cooling foods and relaxation techniques benefit you.",
                 "High-energy activities maintain your vitality. Balance intense workouts with proper rest.">>) @@
            ("Earth" :>
               <<"Digestive health needs attention. Regular meals and grounding exercises maintain your stability.",
                 "Focus on joint and bone health. Weight-bearing exercises and calcium-rich foods are beneficial.",
                 "Routine health checkups prevent issues. Your consistent nature helps maintain good health habits.">>) @@
            ("Air" :>
               <<"Nervous system and respiratory health need care. Breathing exercises and mental relaxation help.",
                 "Manage anxiety through mindfulness. Light exercises and social activities maintain your well-being.",
                 "Balance mental stimulation with physical activity. Your adaptable nature helps you try various health routines.">>) @@
            ("Water" :>
               <<"Emotional health impacts physical well-being. Water-based exercises and meditation are beneficial.",
                 "Focus on lymphatic system and fluid balance. Hydration and emotional expression maintain health.",
                 "Intuitive eating and listening to body signals work best. Your compassionate nature extends to self-care.">>)

\* generate_health_prediction: lines 314-343
generate_health_prediction(zodiac_sign, nakshatra, month_index, birth_data) ==
    LET zodiac_info == Get(zodiac_characteristics, zodiac_sign, EmptyDict)
        element == Get(zodiac_info, "element", "Fire")
        templates == Get(health_templates(zodiac_sign), element, health_templates(zodiac_sign)["Fire"])
    IN  AtMod(templates, month_index)

\* the ruler name taken whole as the lookup key
split_slash_none(ruler) == ruler

\* ruler.split('/')[0] for the ruler names of zodiac_characteristics
split_slash_first(ruler) ==
    CASE ruler = "Mars/Pluto" -> "Mars"
      [] ruler = "Saturn/Uranus" -> "Saturn"
      [] ruler = "Jupiter/Neptune" -> "Jupiter"
      [] OTHER -> ruler

\* the dict literal ruler_remedies of generate_personalized_remedies
ruler_remedies_literal ==
    ("Sun" :> <<"Offer water to Sun god every Sunday morning",
                "Chant Gayatri Mantra daily during sunrise",
                "Donate wheat or jaggery on Sundays">>) @@
    ("Moon" :> <<"Observe fast on Mondays or consume only milk",
                 "Chant Chandra Mantra on Monday evenings",
                 "Donate white clothes or rice on Mondays">>) @@
    ("Mars" :> <<"Chant Hanuman Chalisa on Tuesdays",
                 "Donate red clothes or lentils on Tuesdays",
                 "Fast on Tuesdays or avoid non-veg food">>) @@
    ("Mercury" :> <<"Chant Vishnu Sahasranama on Wednesdays",
                    "Donate green clothes or moong dal",
                    "Feed birds, especially on Wednesdays">>) @@
    ("Jupiter" :> <<"Chant Guru Mantra on Thursdays",
                    "Donate yellow clothes, turmeric, or gram dal",
                    "Help teachers and students">>) @@
    ("Venus" :> <<"Chant Shri Suktam or Lakshmi Mantra on Fridays",
                  "Donate white clothes, rice, or silver",
                  "Maintain harmony in relationships">>) @@
    ("Saturn" :> <<"Light sesame oil lamp under Peepal tree on Saturdays",
                   "Donate black til, iron items, or oil",
                   "Help elderly people and those in need">>)

\* a dict kept from one call to the next instead of being built in the call
kept_ruler_remedies(previous) == previous

\* The dict generate_personalized_remedies works on: the literal is evaluated
\* anew in every call, whatever the previous call's dict (previous) holds.
new_ruler_remedies(previous) == ruler_remedies_literal

\* the element branch that appends for every element but Earth and Air
element_remedy_any(element) ==
    IF element = "Fire" THEN <<"Practice Surya Namaskar daily">>
    ELSE IF element # "Earth" THEN <<"Perform abhishekam to Shiva lingam with water">>
    ELSE <<>>

\* the element-based remedies appended last
element_remedy(element) ==
    IF element = "Fire" THEN <<"Practice Surya Namaskar daily">>
    ELSE IF element = "Water" THEN <<"Perform abhishekam to Shiva lingam with water">>
    ELSE <<>>

\* generate_personalized_remedies(zodiac_sign, nakshatra, birth_data), given
\* the dict object left by the previous call.  remedies aliases a list of
\* the dict, so the appends change the dict too: the result is the returned
\* list and the dict as the call leaves it.
generate_personalized_remedies(zodiac_sign, nakshatra, birth_data, previous) ==
    LET zodiac_info == Get(zodiac_characteristics, zodiac_sign, EmptyDict)
        nakshatra_info == Get(nakshatra_influences, nakshatra, EmptyDict)
        ruler == Get(zodiac_info, "ruler", "")
        ruler_remedies == new_ruler_remedies(previous)
        key == IF split_slash_first(ruler) \in DOMAIN ruler_remedies
               THEN split_slash_first(ruler) ELSE "Jupiter"
        nakshatra_deity == Get(nakshatra_info, "deity", "")
        remedies ==
            ruler_remedies[key]
              \o (IF nakshatra_deity # ""
                  THEN <<"Offer prayers to " \o nakshatra_deity \o " during important decisions">>
                  ELSE <<>>)
              \o element_remedy(Get(zodiac_info, "element", ""))
    IN  [remedies |-> remedies,
         ruler_remedies |-> [ruler_remedies EXCEPT ![key] = remedies]]

\* auspicious days counted in months of 31 days
generate_auspicious_days_of_31(birth_day, birth_month, month_index) ==
    LET base_days == [i \in 1..3 |-> ((birth_day + (i - 1)) % 31) + 1]
    IN  ToString(base_days[1]) \o ", " \o ToString(base_days[2]) \o ", " \o ToString(base_days[3])

\* auspicious days that move on with the month
generate_auspicious_days_monthly(birth_day, birth_month, month_index) ==
    LET base_days == [i \in 1..3 |-> ((birth_day + month_index + (i - 1)) % 28) + 1]
    IN  ToString(base_days[1]) \o ", " \o ToString(base_days[2]) \o ", " \o ToString(base_days[3])

\* generate_auspicious_days(birth_day, birth_month, month_index)
generate_auspicious_days(birth_day, birth_month, month_index) ==
    LET base_days == [i \in 1..3 |-> ((birth_day + (i - 1)) % 28) + 1]
    IN  ToString(base_days[1]) \o ", " \o ToString(base_days[2]) \o ", " \o ToString(base_days[3])

\* the list notes of generate_special_notes, for a sign and a nakshatra
notes(zodiac_sign, nakshatra) ==
    LET zodiac_info == Get(zodiac_characteristics, zodiac_sign, EmptyDict)
        nakshatra_info == Get(nakshatra_influences, nakshatra, EmptyDict)
    IN      <<"Your " \o zodiac_sign \o " energy combined with " \o nakshatra \o " nakshatra brings unique opportunities this month.",
              "The " \o Get(nakshatra_info, "quality", "special") \o " quality of your nakshatra influences this period positively.",
              "Planetary transits favor your " \o Get(zodiac_info, "element", "") \o " element characteristics this month.">>

\* generate_special_notes(zodiac_sign, nakshatra, month_index)
generate_special_notes(zodiac_sign, nakshatra, month_index) ==
    AtMod(notes(zodiac_sign, nakshatra), month_index)

(***************************************************************************)
(* The clock.  now counts days from 1 January 2025; datetime.now() reads   *)
(* it, timedelta(days=...) adds to it and strftime('%B %Y') names its      *)
(* calendar month.                                                         *)
(***************************************************************************)
IsLeap(y) == (y % 4 = 0 /\ y % 100 # 0) \/ y % 400 = 0

DaysInMonth(y, m) ==
    IF m = 2 THEN (IF IsLeap(y) THEN 29 ELSE 28)
    ELSE IF m \in {4, 6, 9, 11} THEN 30 ELSE 31

\* the (year, month) of the day that lies n days after the first of month m
\* of year y
RECURSIVE YearMonthFrom(_, _, _)
YearMonthFrom(n, y, m) ==
    IF n < DaysInMonth(y, m) THEN <<y, m>>
    ELSE IF m = 12 THEN YearMonthFrom(n - DaysInMonth(y, m), y + 1, 1)
    ELSE YearMonthFrom(n - DaysInMonth(y, m), y, m + 1)

MonthNames ==
    <<"January", "February", "March", "April", "May", "June", "July",
      "August", "September", "October", "November", "December">>

\* (current_date + timedelta(days=30*i)).strftime('%B %Y')
month_name(current_date, i) ==
    LET ym == YearMonthFrom(current_date + 30 * i, 2025, 1)
    IN  MonthNames[ym[2]] \o " " \o ToString(ym[1])

\* The 12 entries generate_monthly_predictions builds in its loop, for the
\* values it parsed and the date it read from the clock.
monthly_entries(current_date, birth_data, day, month, zodiac_sign, nakshatra) ==
    [k \in 1..12 |->
        LET i == k - 1
        IN  [month |-> month_name(current_date, i),
             career |-> generate_career_prediction(zodiac_sign, nakshatra, i, birth_data),
             finance |-> generate_finance_prediction(zodiac_sign, nakshatra, i, birth_data),
             relationships |-> generate_relationship_prediction(zodiac_sign, nakshatra, i, birth_data),
             health |-> generate_health_prediction(zodiac_sign, nakshatra, i, birth_data),
             auspicious_days |-> generate_auspicious_days(day, month, i),
             special_notes |-> generate_special_notes(zodiac_sign, nakshatra, i)]]

(***************************************************************************)
(* The module-level random source (the random module's hidden generator).  *)
(* The model keeps the provenance of its state: whether it descends from a *)
(* random.seed(seed) with a number, that number, and the handler thread    *)
(* that seeded it.  A draw advances the generator and leaves the           *)
(* provenance as it is.                                                    *)
(***************************************************************************)
Unseeded == [seeded |-> FALSE, seed |-> 0, by |-> ""]

\* random.seed(seed)
random_seed(seed, t) == [seeded |-> TRUE, seed |-> seed, by |-> t]

\* a reset that leaves the source as it is
random_seed_skipped(r) == r

\* random.seed(): a fresh state from the operating system's entropy
random_seed_none(r) == Unseeded

(***************************************************************************)
(* Language helpers, gemstone, translation.                                *)
(***************************************************************************)
languages ==
    ("en" :> "English") @@ ("hi" :> "Hindi") @@ ("bn" :> "Bengali") @@ ("ta" :> "Tamil") @@
    ("te" :> "Telugu") @@ ("mr" :> "Marathi") @@ ("gu" :> "Gujarati") @@ ("kn" :> "Kannada")

get_language_name(code) == Get(languages, code, "English")

gemstone_map ==
    ("Aries" :> "Red Coral (Moonga)") @@ ("Taurus" :> "Diamond (Heera)") @@
    ("Gemini" :> "Emerald (Panna)") @@ ("Cancer" :> "Pearl (Moti)") @@
    ("Leo" :> "Ruby (Manik)") @@ ("Virgo" :> "Emerald (Panna)") @@
    ("Libra" :> "Diamond (Heera)") @@ ("Scorpio" :> "Red Coral (Moonga)") @@
    ("Sagittarius" :> "Yellow Sapphire (Pukhraj)") @@ ("Capricorn" :> "Blue Sapphire (Neelam)") @@
    ("Aquarius" :> "Blue Sapphire (Neelam)") @@ ("Pisces" :> "Yellow Sapphire (Pukhraj)")

get_gemstone_recommendation(zodiac_sign) == Get(gemstone_map, zodiac_sign, "consult an astrologer")

\* What one call of an external translation service can do: answer 200 with
\* the expected body, answer another status, raise (a timeout included), or
\* answer 200 with a body that lacks the expected key.
ServiceOutcomes == {"ok", "non200", "raise", "badbody"}

lang_map ==
    ("hi" :> "hi") @@ ("bn" :> "bn") @@ ("ta" :> "ta") @@ ("te" :> "te") @@
    ("mr" :> "mr") @@ ("gu" :> "gu") @@ ("kn" :> "kn")

\* the text a service returns for text: some other text, tagged here with
\* the service and the language pair asked for
Translated(service, target_lang, text) == "[" \o service \o " en|" \o target_lang \o "] " \o text

\* a translate_text_simple that answers nothing when both services fail
translate_text_simple_no_fallback(text, target_language, svc) ==
    IF target_language = "en" THEN text
    ELSE LET target_lang == Get(lang_map, target_language, "en")
         IN  IF target_lang = "en" THEN text
             ELSE IF svc.mymemory = "ok" THEN Translated("mymemory", target_lang, text)
             ELSE IF svc.libre = "ok" THEN Translated("libretranslate", target_lang, text)
             ELSE ""

\* translate_text_simple(text, target_language), given what the two
\* services do when called (svc.mymemory, svc.libre)
translate_text_simple(text, target_language, svc) ==
    IF target_language = "en" THEN text
    ELSE LET target_lang == Get(lang_map, target_language, "en")
         IN  IF target_lang = "en" THEN text
             ELSE IF svc.mymemory = "ok" THEN Translated("mymemory", target_lang, text)
             ELSE IF svc.libre = "ok" THEN Translated("libretranslate", target_lang, text)
             ELSE text

\* the requests sent when the target language itself is handed to the
\* services, mapped or not
translate_requests_unmapped(text, target_language, svc) ==
    IF target_language = "en" THEN <<>>
    ELSE IF svc.mymemory = "ok"
    THEN <<[service |-> "mymemory", target |-> target_language, usable |-> svc.mymemory = "ok"]>>
    ELSE <<[service |-> "mymemory", target |-> target_language, usable |-> svc.mymemory = "ok"],
           [service |-> "libretranslate", target |-> target_language, usable |-> svc.libre = "ok"]>>

\* The requests translate_text_simple(text, target_language) sends to the
\* external services (requests.get at line 613, requests.post at line 633),
\* in order, each with the language asked for and whether the service
\* yielded a usable result.
translate_requests(text, target_language, svc) ==
    IF target_language = "en" THEN <<>>
    ELSE LET target_lang == Get(lang_map, target_language, "en")
         IN  IF target_lang = "en" THEN <<>>
             ELSE IF svc.mymemory = "ok"
             THEN <<[service |-> "mymemory", target |-> target_lang, usable |-> svc.mymemory = "ok"]>>
             ELSE <<[service |-> "mymemory", target |-> target_lang, usable |-> svc.mymemory = "ok"],
                    [service |-> "libretranslate", target |-> target_lang, usable |-> svc.libre = "ok"]>>

\* the texts of a predictions dict that translate_predictions_content hands
\* to translate_text_simple
translated_texts(predictions_data) ==
    {predictions_data.overview}
      \cup {predictions_data.remedies[k] : k \in DOMAIN predictions_data.remedies}
      \cup {text \in {predictions_data.monthly[k][key] :
                        k \in DOMAIN predictions_data.monthly,
                        key \in {"career", "finance", "relationships", "health", "special_notes"}} :
               text # ""}

\* translate_predictions_content(predictions_data, language)
translate_predictions_content(predictions_data, language, svc) ==
    IF language = "en" THEN predictions_data
    ELSE LET tr(text) == translate_text_simple(text, language, svc)
             trIf(text) == IF text # "" THEN tr(text) ELSE text
         IN  [overview |-> tr(predictions_data.overview),
              monthly |->
                  [k \in DOMAIN predictions_data.monthly |->
                      LET month_pred == predictions_data.monthly[k]
                      IN  [month_pred EXCEPT
                             !.career = trIf(@), !.finance = trIf(@),
                             !.relationships = trIf(@), !.health = trIf(@),
                             !.special_notes = trIf(@)]],
              remedies |->
                  [k \in DOMAIN predictions_data.remedies |-> tr(predictions_data.remedies[k])]]

(***************************************************************************)
(* Request payloads.  A payload is what request.get_json() returns: None   *)
(* (json = "null") or an object whose keys hold JSON values.               *)
(***************************************************************************)
LangAbsent == [t |-> "absent", code |-> ""]
Lang(code) == [t |-> "str", code |-> code]

Payload(name, birth_date, birth_time, birth_place, language) ==
    [json |-> "object", name |-> name, birth_date |-> birth_date,
     birth_time |-> birth_time, birth_place |-> birth_place, language |-> language]

Delhi == Str(<<"D", "e", "l", "h", "i">>)
TestName == Str(<<"T", "e", "s", "t">>)

\* the end-to-end scenario of the specification
P_test == Payload(TestName, Str(<<"1", "5", "0", "8", "1", "9", "9", "0">>),
                  Str(<<"1", "2", "3", "0">>), Delhi, LangAbsent)
\* a Water sign with a composite ruler, translated to Hindi
P_hindi == Payload(Str(<<"A", "b">>), Str(<<"0", "1", "0", "3", "1", "9", "8", "5">>),
                   Str(<<"0", "6", "0", "0">>), Delhi, Lang("hi"))
\* birth_date of 7 characters
P_short_date == Payload(TestName, Str(<<"3", "1", "0", "1", "1", "9", "9">>),
                        Str(<<"1", "2", "3", "0">>), Delhi, LangAbsent)
\* birth_time with a letter
P_bad_time == Payload(TestName, Str(<<"1", "5", "0", "8", "1", "9", "9", "0">>),
                      Str(<<"1", "2", "a", "0">>), Delhi, LangAbsent)
\* no name key
P_no_name == Payload(Absent, Str(<<"1", "5", "0", "8", "1", "9", "9", "0">>),
                     Str(<<"1", "2", "3", "0">>), Delhi, LangAbsent)
\* empty birth_place
P_empty_place == Payload(TestName, Str(<<"1", "5", "0", "8", "1", "9", "9", "0">>),
                         Str(<<"1", "2", "3", "0">>), Str(<<>>), LangAbsent)
\* no JSON object at all
P_null == [json |-> "null", name |-> Absent, birth_date |-> Absent,
           birth_time |-> Absent, birth_place |-> Absent, language |-> LangAbsent]
\* birth_date of 8 Arabic-Indic digits (23 07 1991)
P_arabic_date == Payload(TestName,
                         Str(<<"U+0662", "U+0663", "U+0660", "U+0667", "U+0661", "U+0669", "U+0669", "U+0661">>),
                         Str(<<"1", "2", "3", "0">>), Delhi, LangAbsent)
\* birth_date of 8 characters, the first a superscript two
P_superscript_date == Payload(TestName,
                              Str(<<"U+00B2", "5", "0", "8", "1", "9", "9", "0">>),
                              Str(<<"1", "2", "3", "0">>), Delhi, LangAbsent)
\* birth_date sent as a JSON number
P_number_date == Payload(TestName, Num(15081990), Str(<<"1", "2", "3", "0">>), Delhi, LangAbsent)

Payloads ==
    {P_test, P_hindi, P_arabic_date, P_short_date, P_bad_time, P_no_name,
     P_empty_place, P_null, P_superscript_date, P_number_date}

(***************************************************************************)
(* The route's validation (lines 727-753) and the engine's parsing.        *)
(***************************************************************************)
required_fields == <<"name", "birth_date", "birth_time", "birth_place">>

\* the required fields that are not in data or are falsy, in the loop's order
MissingFields(data) ==
    SelectSeq(required_fields, LAMBDA f : data[f].t = "absent" \/ Falsy(data[f]))

error_response(code, message) ==
    [code |-> code, body |-> [status |-> "error", message |-> message]]

success_response(predictions_data) ==
    [code |-> 200, body |-> [status |-> "success", data |-> predictions_data]]

\* an exception handler that still hands out what was computed
exception_response_with_data(e) ==
    [code |-> 500, body |-> [status |-> "error",
                             message |-> "Failed to generate predictions: " \o e,
                             data |-> [partial |-> TRUE]]]

\* the route's except clause
exception_response(e) == error_response(500, "Failed to generate predictions: " \o e)

NoResponse == [code |-> 0, body |-> [status |-> "pending"]]

\* len(birth_date) != 8 or not birth_date.isdigit(), for a str
birth_date_malformed(birth_date) == Len(birth_date.s) # 8 \/ ~str_isdigit(birth_date.s)

\* len(birth_time) != 4 or not birth_time.isdigit(), for a str
birth_time_malformed(birth_time) == Len(birth_time.s) # 4 \/ ~str_isdigit(birth_time.s)

\* The route from request.get_json() to the call of the engine: a response
\* to return at once (respond), or the go-ahead to call the engine.  raised
\* tells whether the response comes from the except clause.
route_validation(data) ==
    IF data.json = "null"
    THEN [respond |-> TRUE, raised |-> TRUE,
          resp |-> exception_response("argument of type 'NoneType' is not iterable")]
    ELSE IF Len(MissingFields(data)) > 0
    THEN [respond |-> TRUE, raised |-> FALSE,
          resp |-> error_response(400, "Missing required field: " \o Head(MissingFields(data)))]
    ELSE IF data.birth_date.t # "str"
    THEN [respond |-> TRUE, raised |-> TRUE,
          resp |-> exception_response("object of type 'int' has no len()")]
    ELSE IF birth_date_malformed(data.birth_date)
    THEN [respond |-> TRUE, raised |-> FALSE,
          resp |-> error_response(400, "Birth date must be in DDMMYYYY format")]
    ELSE IF data.birth_time.t # "str"
    THEN [respond |-> TRUE, raised |-> TRUE,
          resp |-> exception_response("object of type 'int' has no len()")]
    ELSE IF birth_time_malformed(data.birth_time)
    THEN [respond |-> TRUE, raised |-> FALSE,
          resp |-> error_response(400, "Birth time must be in HHMM format (24-hour)")]
    ELSE [respond |-> FALSE, raised |-> FALSE, resp |-> NoResponse]

\* data.get('language', 'en')
language_of(data) == IF data.language.t = "absent" THEN "en" ELSE data.language.code

NoLucky == [lucky_number |-> <<>>, lucky_color |-> "", lucky_day |-> ""]

\* generate_predictions lines 505-518 and generate_monthly_predictions lines
\* 178-186: everything the engine computes before it seeds the random
\* source, or the exception that ends the call (ok = FALSE).
engine_parse(birth_data) ==
    LET birth_date == birth_data.birth_date.s
        birth_time == birth_data.birth_time.s
        d == int(Prefix(birth_date, 2))
        m == int(Slice(birth_date, 2, 4))
        y == int(Slice(birth_date, 4, 8))
        h == IF Len(birth_time) >= 2 THEN int(Prefix(birth_time, 2)) ELSE [ok |-> TRUE, val |-> 12]
        failed(e) == [ok |-> FALSE, exc |-> e, day |-> 0, month |-> 0, hour |-> 0,
                      zodiac |-> <<"", "">>, ascendant |-> <<"", "">>, nakshatra |-> "",
                      lucky_elements |-> NoLucky, seed |-> 0]
    IN  IF ~(d.ok /\ m.ok /\ y.ok /\ h.ok)
        THEN failed("invalid literal for int() with base 10")
        ELSE IF ~calculate_nakshatra(d.val).ok
        THEN failed("list index out of range")
        ELSE IF birth_data.name.t # "str"
        THEN failed("'int' object is not iterable")
        ELSE [ok |-> TRUE, exc |-> "", day |-> d.val, month |-> m.val, hour |-> h.val,
              zodiac |-> calculate_zodiac_sign(d.val, m.val),
              ascendant |-> calculate_ascendant(h.val),
              nakshatra |-> calculate_nakshatra(d.val).val,
              lucky_elements |-> get_lucky_elements(d.val, m.val),
              seed |-> SumOrd(birth_data.name.s) + d.val + m.val]

(***************************************************************************)
(* State.                                                                  *)
(***************************************************************************)
\* the request-handler threads of the server
Threads == {"t1", "t2"}

VARIABLES
    calls,           \* per thread: the request it handles, where it is in the
                     \* handler, the handler's locals and its response
    rng,             \* the state of the module-level random source
    now,             \* the clock: today's day number
    ruler_remedies,  \* the ruler_remedies dict object as the latest
                     \* generate_personalized_remedies call left it
    PDF_ENGINE,      \* the module's PDF engine, set by the imports
    CASHFREE_SECRET_KEY,  \* os.environ.get('CASHFREE_SECRET_KEY')
    pdf_calls,       \* per thread: the PDF request it handles
    temp_files,      \* the temporary files that exist
    hook_calls       \* per thread: the webhook request it handles

\* the state of the prediction route, and that of the other routes
prediction_vars == <<calls, rng, now, ruler_remedies>>

routes_vars == <<PDF_ENGINE, CASHFREE_SECRET_KEY, pdf_calls, temp_files, hook_calls>>

vars == <<calls, rng, now, ruler_remedies, PDF_ENGINE, CASHFREE_SECRET_KEY,
          pdf_calls, temp_files, hook_calls>>

\* no engine result (yet)
NoResult ==
    [predictions |-> [overview |-> "", monthly |-> <<>>, remedies |-> <<>>],
     chart_info |-> [ascendant |-> "", ascendant_sanskrit |-> "",
                     moon_sign |-> "", moon_sign_sanskrit |-> "",
                     sun_sign |-> "", nakshatra |-> "",
                     zodiac_sign |-> "", zodiac_sanskrit |-> ""],
     lucky_elements |-> NoLucky,
     sanskrit_sloka |-> ""]

\* no translation attempted
NoTranslation == [adapter |-> {}, requests |-> {}]

\* A handler thread with request data, its locals not yet set.  raised
\* (an exception reached the route's except clause), result (what the
\* engine returned), current_date, sloka_rng and translation (the languages
\* translate_text_simple was called with and the requests it sent to the
\* external services) outlive the handler for the properties' sake.
Frame(pc, data) ==
    [pc |-> pc, data |-> data, engine_called |-> FALSE,
     day |-> 0, month |-> 0, hour |-> 0,
     zodiac |-> <<"", "">>, ascendant |-> <<"", "">>, nakshatra |-> "",
     lucky_elements |-> NoLucky, seed |-> 0, current_date |-> 0,
     monthly |-> <<>>, sloka_rng |-> Unseeded,
     translation |-> NoTranslation,
     raised |-> FALSE, result |-> NoResult, resp |-> NoResponse]

(***************************************************************************)
(* The PDF route (/api/generate-pdf-report) and the payment webhook         *)
(* (/api/payment-webhook): payloads, pure functions and frames.            *)
(***************************************************************************)
\* the PDF engines the imports of lines 29-45 can leave in PDF_ENGINE
NoEngine == "None"
PdfEngines == {"weasyprint", "pdfkit", "xhtml2pdf", NoEngine}

\* What request.get_json() returns for a PDF request: None, or an object
\* with some of the keys name, birth_date, predictions; name a str or a
\* number, predictions a dict or null.
PdfPayload(fields, name_is_str, predictions_is_dict) ==
    [json |-> "object", fields |-> fields, name_is_str |-> name_is_str,
     predictions_is_dict |-> predictions_is_dict]

D_null == [json |-> "null", fields |-> {}, name_is_str |-> FALSE, predictions_is_dict |-> FALSE]
D_full == PdfPayload({"name", "birth_date", "predictions"}, TRUE, TRUE)
D_no_predictions == PdfPayload({"name", "birth_date"}, TRUE, FALSE)
D_null_predictions == PdfPayload({"name", "birth_date", "predictions"}, TRUE, FALSE)
D_number_name == PdfPayload({"name", "birth_date", "predictions"}, FALSE, TRUE)

PdfPayloads == {D_null, D_full, D_no_predictions, D_null_predictions, D_number_name}

pdf_required_fields == <<"name", "birth_date", "predictions">>

\* the required fields that are not keys of data, in the loop's order
PdfMissingFields(data) == SelectSeq(pdf_required_fields, LAMBDA f : f \notin data.fields)

\* the except clause of generate_pdf_report
pdf_exception_response(e) == error_response(500, "Failed to generate PDF: " \o e)

pdf_failed_response == error_response(500, "PDF generation failed - no PDF engine available")

pdf_success_response == [code |-> 200, body |-> [status |-> "success"]]

\* no temporary file
NoPath == 0

\* A handler thread of the PDF route: created tells whether the handler has
\* made its temporary file, pdf_path names it.
PdfFrame(pc, data) ==
    [pc |-> pc, data |-> data, created |-> FALSE, pdf_path |-> NoPath, resp |-> NoResponse]

\* generate_pdf_report lines 793-804, from request.get_json() to the
\* creation of the temporary file: data.get on None raises, a missing field
\* is answered 400.
pdf_validated(data) ==
    IF data.json = "null"
    THEN [PdfFrame("done", data) EXCEPT
            !.resp = pdf_exception_response("'NoneType' object has no attribute 'get'")]
    ELSE IF Len(PdfMissingFields(data)) > 0
    THEN [PdfFrame("done", data) EXCEPT
            !.resp = error_response(400, "Missing required field: " \o Head(PdfMissingFields(data)))]
    ELSE PdfFrame("create", data)

\* What writing the PDF can do: the engine writes the file, or it raises.
RenderOutcomes == {"written", "raise"}

\* generate_pdf(html_content, output_path): True when the engine wrote the
\* file, False when there is no engine or the engine raised
generate_pdf(engine, outcome) ==
    IF engine = NoEngine THEN FALSE
    ELSE outcome = "written"

\* What reading the file back can do.
ReadOutcomes == {"read", "raise"}

\* the payload keys of a webhook, in the order sorted() gives them
SortedKeys == <<"amount", "orderId", "orderStatus">>

\* What request.get_json() returns for a webhook: None, a JSON array, or an
\* object, a function from some of the keys to values (strings, or a
\* number for amount).
W_null == [json |-> "null", items |-> <<>>]
W_array == [json |-> "array", items |-> <<>>]
WebhookObject(items) == [json |-> "object", items |-> items]

W_paid == WebhookObject(("orderStatus" :> Str(<<"PAID">>)) @@ ("orderId" :> Str(<<"o1">>))
                          @@ ("amount" :> Num(100)))
W_failed == WebhookObject(("orderId" :> Str(<<"o1">>)) @@ ("orderStatus" :> Str(<<"FAILED">>)))
W_other_order == WebhookObject(("orderId" :> Str(<<"o2">>)) @@ ("orderStatus" :> Str(<<"PAID">>)))
W_empty == WebhookObject(<<>>)

WebhookPayloads == {W_null, W_array, W_paid, W_failed, W_other_order, W_empty}

\* str(value) of a payload value: a str as it is, a number in decimal
RECURSIVE Join(_)
Join(chars) == IF Len(chars) = 0 THEN "" ELSE Head(chars) \o Join(Tail(chars))

str(value) == IF value.t = "int" THEN ToString(value.n) ELSE Join(value.s)

\* "".join([str(value) for value in dict(sorted(data.items())).values()])
RECURSIVE signature_data_from(_, _)
signature_data_from(items, keys) ==
    IF Len(keys) = 0 THEN ""
    ELSE (IF Head(keys) \in DOMAIN items THEN str(items[Head(keys)]) ELSE "")
           \o signature_data_from(items, Tail(keys))

signature_data(data) == signature_data_from(data.items, SortedKeys)

\* hmac.new(key, msg, hashlib.sha256).hexdigest(): the digest is kept as the
\* pair it was computed from, so that two digests are equal exactly when key
\* and message are.
hexdigest(key, msg) == [t |-> "hex", key |-> key, msg |-> msg]

\* the secret keys os.environ.get can yield: None when the variable is not
\* set, or the key
NoKey == "None"
SecretKeys == {NoKey, "secret"}

\* the x-webhook-signature header: absent (None), or a string; the strings
\* are digests under the server's key or another one, of this payload or
\* another one, and a text that is no digest
NoSignature == [t |-> "absent", key |-> "", msg |-> ""]

Signatures ==
    {NoSignature, [t |-> "text", key |-> "", msg |-> "deadbeef"]}
      \cup {hexdigest(key, signature_data(d)) :
              key \in {"secret", "guess"}, d \in {W_paid, W_failed, W_other_order, W_empty}}

\* a verification that lets a request pass when it cannot compute the digest
verify_webhook_signature_lenient(data, signature, secret_key) ==
    IF data.json # "object" THEN TRUE
    ELSE IF secret_key = NoKey THEN TRUE
    ELSE hexdigest(secret_key, signature_data(data)) = signature

\* verify_webhook_signature(data, signature) under CASHFREE_SECRET_KEY:
\* data.items() raises when data is no dict and None.encode raises when the
\* key is not set; the except clause returns False.
verify_webhook_signature(data, signature, secret_key) ==
    IF data.json # "object" THEN FALSE
    ELSE IF secret_key = NoKey THEN FALSE
    ELSE hexdigest(secret_key, signature_data(data)) = signature

\* A handler of the webhook route: verified is what verify_webhook_signature
\* returned, read_order whether data.get('orderId') and
\* data.get('orderStatus') were evaluated.
HookFrame(pc, data, signature) ==
    [pc |-> pc, data |-> data, signature |-> signature, verified |-> FALSE,
     read_order |-> FALSE, resp |-> NoResponse]

\* payment_webhook lines 1028-1055 on one request
payment_webhook_result(data, signature, secret_key) ==
    IF ~verify_webhook_signature(data, signature, secret_key)
    THEN [HookFrame("done", data, signature) EXCEPT
            !.resp = error_response(401, "Invalid signature")]
    ELSE [HookFrame("done", data, signature) EXCEPT
            !.verified = TRUE, !.read_order = TRUE,
            !.resp = [code |-> 200, body |-> [status |-> "success"]]]

\* The other routes as the server starts: no request in any handler, no
\* temporary file, the engine and the key as the environment gave them.
RoutesInit(engines, keys) ==
    /\ PDF_ENGINE \in engines
    /\ CASHFREE_SECRET_KEY \in keys
    /\ pdf_calls = [t \in Threads |-> PdfFrame("idle", D_null)]
    /\ temp_files = {}
    /\ hook_calls = [t \in Threads |-> HookFrame("idle", W_null, NoSignature)]

Init ==
    /\ calls = [t \in Threads |-> Frame("idle", P_null)]
    /\ rng = Unseeded
    /\ now = 0
    /\ ruler_remedies = ruler_remedies_literal
    /\ RoutesInit({NoEngine}, {NoKey})

(***************************************************************************)
(* Actions.  A handler is cut into steps at its accesses to what the       *)
(* threads share, the random source and the clock: each step holds one     *)
(* such access and the thread-local work around it.                        *)
(***************************************************************************)
\* Route lines 727-760 and the engine up to line 186, on the frame c of a
\* request just received: validation, then the call of
\* prediction_engine.generate_predictions, which parses the birth data and
\* derives sign, ascendant, nakshatra, lucky elements and the seed.
validated(c) ==
    LET v == route_validation(c.data)
        e == engine_parse(c.data)
    IN  IF v.respond
        THEN [c EXCEPT !.pc = "done", !.raised = v.raised, !.resp = v.resp]
        ELSE IF ~e.ok
        THEN [c EXCEPT !.pc = "done", !.engine_called = TRUE, !.raised = TRUE,
                       !.resp = exception_response(e.exc)]
        ELSE [c EXCEPT !.pc = "seed", !.engine_called = TRUE,
                       !.day = e.day, !.month = e.month, !.hour = e.hour,
                       !.zodiac = e.zodiac, !.ascendant = e.ascendant,
                       !.nakshatra = e.nakshatra,
                       !.lucky_elements = e.lucky_elements, !.seed = e.seed]

\* A request with payload p reaches thread t, which validates it and enters
\* the engine.
Receive(t, p) ==
    /\ calls[t].pc \in {"idle", "done"}
    /\ calls' = [calls EXCEPT ![t] = validated(Frame("received", p))]
    /\ UNCHANGED <<rng, now, ruler_remedies, routes_vars>>

\* The same for a request that is already in thread t's hands.
Validate(t) ==
    /\ calls[t].pc = "received"
    /\ calls' = [calls EXCEPT ![t] = validated(@)]
    /\ UNCHANGED <<rng, now, ruler_remedies, routes_vars>>

\* generate_monthly_predictions line 187: random.seed(seed)
Seed(t) ==
    /\ calls[t].pc = "seed"
    /\ rng' = random_seed(calls[t].seed, t)
    /\ calls' = [calls EXCEPT ![t].pc = "monthly"]
    /\ UNCHANGED <<now, ruler_remedies, routes_vars>>

\* generate_monthly_predictions lines 189-213: read the clock, build the 12
\* monthly entries
Monthly(t) ==
    LET c == calls[t]
    IN  /\ c.pc = "monthly"
        /\ calls' = [calls EXCEPT ![t] =
             [c EXCEPT !.pc = "reset", !.current_date = now,
                       !.monthly = monthly_entries(now, c.data, c.day, c.month,
                                                   c.zodiac[1], c.nakshatra)]]
        /\ UNCHANGED <<rng, now, ruler_remedies, routes_vars>>

\* generate_monthly_predictions line 215: random.seed()
Reset(t) ==
    /\ calls[t].pc = "reset"
    /\ rng' = random_seed_none(rng)
    /\ calls' = [calls EXCEPT ![t].pc = "sloka"]
    /\ UNCHANGED <<now, ruler_remedies, routes_vars>>

\* the dict generate_predictions returns (lines 528-546), for the frame c,
\* the remedies and the sloka drawn
engine_result(c, overview, remedies, sloka) ==
    [predictions |-> [overview |-> overview, monthly |-> c.monthly, remedies |-> remedies],
     chart_info |-> [ascendant |-> c.ascendant[1], ascendant_sanskrit |-> c.ascendant[2],
                     moon_sign |-> c.zodiac[1], moon_sign_sanskrit |-> c.zodiac[2],
                     sun_sign |-> c.zodiac[1], nakshatra |-> c.nakshatra,
                     zodiac_sign |-> c.zodiac[1], zodiac_sanskrit |-> c.zodiac[2]],
     lucky_elements |-> c.lucky_elements,
     sanskrit_sloka |-> sloka]

\* Route lines 762-782 on the engine's result: translation when the language
\* is not 'en', gemstone, language and language name.
route_result(result, language, svc) ==
    [predictions |-> IF language # "en"
                     THEN translate_predictions_content(result.predictions, language, svc)
                     ELSE result.predictions,
     chart_info |-> result.chart_info,
     lucky_elements |-> result.lucky_elements,
     sanskrit_sloka |-> result.sanskrit_sloka,
     gemstone_recommendation |-> get_gemstone_recommendation(result.chart_info.zodiac_sign),
     language |-> language,
     language_name |-> get_language_name(language)]

\* Route lines 763-767 seen from outside: the target languages
\* translate_text_simple is called with and the requests that go out to the
\* services, over all the texts of the predictions.
route_translation(result, language, svc) ==
    IF language # "en"
    THEN [adapter |-> {language},
          requests |-> UNION {{translate_requests(text, language, svc)[k] :
                                  k \in DOMAIN translate_requests(text, language, svc)} :
                              text \in translated_texts(result.predictions)}]
    ELSE NoTranslation

\* whether translate_text_simple gets as far as calling a service
calls_service(language) == language # "en" /\ Get(lang_map, language, "en") # "en"

NoServiceCall == [mymemory |-> "ok", libre |-> "ok"]

\* what the two services do for one request, when they are called at all
ServiceBehaviours(language) ==
    IF calls_service(language)
    THEN [mymemory : ServiceOutcomes, libre : ServiceOutcomes]
    ELSE {NoServiceCall}

\* generate_predictions lines 522-546 and route lines 762-782: the overview,
\* the remedies, random.choice(self.sanskrit_slokas), then translation and
\* the response.  The draw takes whatever the random source yields;
\* sloka_rng records the state it was drawn from.  What the translation
\* services do is drawn once for the request.  The locals go away with the
\* frame.
Finish(t) ==
    LET c == calls[t]
        r == generate_personalized_remedies(c.zodiac[1], c.nakshatra, c.data, ruler_remedies)
        overview == generate_personalized_overview(c.zodiac[1], c.ascendant[1], c.nakshatra, c.data)
    IN  /\ c.pc = "sloka"
        /\ \E i \in DOMAIN sanskrit_slokas, svc \in ServiceBehaviours(language_of(c.data)) :
             LET result == engine_result(c, overview, r.remedies, sanskrit_slokas[i])
             IN  calls' = [calls EXCEPT ![t] =
                     [Frame("done", c.data) EXCEPT
                        !.engine_called = TRUE,
                        !.current_date = c.current_date,
                        !.sloka_rng = rng,
                        !.result = result,
                        !.translation = route_translation(result, language_of(c.data), svc),
                        !.resp = success_response(
                                   route_result(result, language_of(c.data), svc))]]
        /\ ruler_remedies' = r.ruler_remedies
        /\ UNCHANGED <<rng, now, routes_vars>>

\* A day passes.
Tick ==
    /\ now < MaxNow
    /\ now' = now + 1
    /\ UNCHANGED <<calls, rng, ruler_remedies, routes_vars>>

Step(t) ==
    \/ Seed(t)
    \/ Monthly(t)
    \/ Reset(t)
    \/ Finish(t)

\* The server: the threads handle requests concurrently, their steps
\* interleaved in any order.
Next ==
    \/ \E t \in Threads, p \in Payloads : Receive(t, p)
    \/ \E t \in Threads : Step(t)
    \/ Tick

Spec == Init /\ [][Next]_vars

\* A request is received only when no other request is being handled.
ReceiveSequential(t, p) ==
    /\ \A u \in Threads : calls[u].pc \in {"idle", "done"}
    /\ Receive(t, p)

\* The server handling one request at a time.
SeqNext ==
    \/ \E t \in Threads, p \in Payloads : ReceiveSequential(t, p)
    \/ \E t \in Threads : Step(t)
    \/ Tick

SeqSpec == Init /\ [][SeqNext]_vars

(***************************************************************************)
(* The engine on its whole input domain: one request that passes the       *)
(* route's validation, with any two-digit day, month and hour, handled by  *)
(* one thread from reception to response.                                  *)
(***************************************************************************)
DigitChars == <<"0", "1", "2", "3", "4", "5", "6", "7", "8", "9">>

\* a number 0..99 written with two digits
TwoDigits(n) == <<DigitChars[(n \div 10) + 1], DigitChars[(n % 10) + 1]>>

\* dates for which every hour is tried
HourDates == {<<15, 8>>, <<1, 3>>, <<99, 99>>, <<0, 0>>}

\* (day, month, hour): every day and month at noon, and every hour on the
\* dates of HourDates
EngineInputs ==
    {<<d, mo, 12>> : d \in 0..99, mo \in 0..99}
      \cup {<<dm[1], dm[2], h>> : dm \in HourDates, h \in 0..99}

EnginePayload(d, mo, h) ==
    Payload(TestName, Str(TwoDigits(d) \o TwoDigits(mo) \o <<"1", "9", "9", "0">>),
            Str(TwoDigits(h) \o <<"3", "0">>), Delhi, LangAbsent)

EngineInit ==
    /\ \E x \in EngineInputs :
         calls = [t \in Threads |->
                    IF t = "t1" THEN Frame("received", EnginePayload(x[1], x[2], x[3]))
                    ELSE Frame("idle", P_null)]
    /\ rng = Unseeded
    /\ now = 0
    /\ ruler_remedies = ruler_remedies_literal
    /\ RoutesInit({NoEngine}, {NoKey})

EngineNext ==
    \/ Validate("t1")
    \/ Step("t1")

EngineSpec == EngineInit /\ [][EngineNext]_vars

(***************************************************************************)
(* Translation on its whole input domain: one request in each language     *)
(* the server knows, in one it does not know and with no language at all,  *)
(* handled by one thread from reception to response.                       *)
(***************************************************************************)
\* the scenario request, asking for language code
P_language(code) ==
    Payload(TestName, Str(<<"1", "5", "0", "8", "1", "9", "9", "0">>),
            Str(<<"1", "2", "3", "0">>), Delhi, Lang(code))

\* a language code the server has no name for
P_french == P_language("fr")

TranslatePayloads ==
    {P_language(code) : code \in DOMAIN languages} \cup {P_french, P_test, P_hindi}

TranslateInit ==
    /\ \E p \in TranslatePayloads :
         calls = [t \in Threads |->
                    IF t = "t1" THEN Frame("received", p) ELSE Frame("idle", P_null)]
    /\ rng = Unseeded
    /\ now = 0
    /\ ruler_remedies = ruler_remedies_literal
    /\ RoutesInit({NoEngine}, {NoKey})

TranslateSpec == TranslateInit /\ [][EngineNext]_vars

(***************************************************************************)
(* The PDF route: handler threads that create, fill, read and delete       *)
(* temporary files.                                                        *)
(***************************************************************************)
\* the names tempfile can give: 1..MaxFiles
TempNames == 1..MaxFiles

\* A PDF request with payload d reaches thread t (lines 793-804).
PdfReceive(t, d) ==
    /\ pdf_calls[t].pc \in {"idle", "done"}
    /\ pdf_calls' = [pdf_calls EXCEPT ![t] = pdf_validated(d)]
    /\ UNCHANGED <<prediction_vars, PDF_ENGINE, CASHFREE_SECRET_KEY, temp_files, hook_calls>>

\* lines 807-808: tempfile.NamedTemporaryFile(suffix='.pdf', delete=False)
\* makes a file under a name no file has, and the with block closes it.
PdfCreate(t) ==
    /\ pdf_calls[t].pc = "create"
    /\ \E name \in TempNames \ temp_files :
         /\ temp_files' = temp_files \cup {name}
         /\ pdf_calls' = [pdf_calls EXCEPT ![t].pc = "render", ![t].created = TRUE,
                                           ![t].pdf_path = name]
    /\ UNCHANGED <<prediction_vars, PDF_ENGINE, CASHFREE_SECRET_KEY, hook_calls>>

\* lines 811-818: create_pdf_html(data), which raises when predictions is
\* no dict, then generate_pdf; the handler returns 500 when it gives False,
\* and the except clause returns 500 for the exception.
PdfRender(t) ==
    LET c == pdf_calls[t]
    IN  /\ c.pc = "render"
        /\ \E outcome \in RenderOutcomes :
             pdf_calls' = [pdf_calls EXCEPT ![t] =
                 IF ~c.data.predictions_is_dict
                 THEN [c EXCEPT !.pc = "done",
                                !.resp = pdf_exception_response(
                                           "'NoneType' object has no attribute 'get'")]
                 ELSE IF ~generate_pdf(PDF_ENGINE, outcome)
                 THEN [c EXCEPT !.pc = "done", !.resp = pdf_failed_response]
                 ELSE [c EXCEPT !.pc = "read"]]
        /\ UNCHANGED <<prediction_vars, PDF_ENGINE, CASHFREE_SECRET_KEY, temp_files, hook_calls>>

\* lines 821-832: the file is read back, os.unlink(pdf_path) deletes it and
\* the response is built; data['name'].replace raises when name is no str.
\* An exception at the read goes to the except clause.
PdfRead(t) ==
    LET c == pdf_calls[t]
    IN  /\ c.pc = "read"
        /\ \E outcome \in ReadOutcomes :
             IF outcome = "raise"
             THEN /\ pdf_calls' = [pdf_calls EXCEPT ![t] =
                        [c EXCEPT !.pc = "done",
                                  !.resp = pdf_exception_response("[Errno 5] Input/output error")]]
                  /\ UNCHANGED temp_files
             ELSE /\ temp_files' = temp_files \ {c.pdf_path}
                  /\ pdf_calls' = [pdf_calls EXCEPT ![t] =
                        [c EXCEPT !.pc = "done",
                                  !.resp = IF c.data.name_is_str
                                           THEN pdf_success_response
                                           ELSE pdf_exception_response(
                                                  "'int' object has no attribute 'replace'")]]
        /\ UNCHANGED <<prediction_vars, PDF_ENGINE, CASHFREE_SECRET_KEY, hook_calls>>

PdfInit ==
    /\ calls = [t \in Threads |-> Frame("idle", P_null)]
    /\ rng = Unseeded
    /\ now = 0
    /\ ruler_remedies = ruler_remedies_literal
    /\ RoutesInit(PdfEngines, {NoKey})

PdfNext ==
    \/ \E t \in Threads, d \in PdfPayloads : PdfReceive(t, d)
    \/ \E t \in Threads : PdfCreate(t)
    \/ \E t \in Threads : PdfRender(t)
    \/ \E t \in Threads : PdfRead(t)

\* The server handling PDF requests on its threads.
PdfSpec == PdfInit /\ [][PdfNext]_vars

(***************************************************************************)
(* The payment webhook.                                                    *)
(***************************************************************************)
\* A webhook request with payload d and signature header s is handled by
\* thread t (lines 1028-1055); the handler shares nothing with the others.
PaymentWebhook(t, d, s) ==
    /\ hook_calls' = [hook_calls EXCEPT ![t] = payment_webhook_result(d, s, CASHFREE_SECRET_KEY)]
    /\ UNCHANGED <<prediction_vars, PDF_ENGINE, CASHFREE_SECRET_KEY, pdf_calls, temp_files>>

WebhookInit ==
    /\ calls = [t \in Threads |-> Frame("idle", P_null)]
    /\ rng = Unseeded
    /\ now = 0
    /\ ruler_remedies = ruler_remedies_literal
    /\ RoutesInit({NoEngine}, SecretKeys)

WebhookNext == \E t \in Threads, d \in WebhookPayloads, s \in Signatures : PaymentWebhook(t, d, s)

\* The server handling webhook requests on its threads.
WebhookSpec == WebhookInit /\ [][WebhookNext]_vars

(***************************************************************************)
(* Properties.                                                             *)
(***************************************************************************)
Done(t) == calls[t].pc = "done"

\* thread t has answered its request with a prediction bundle
Succeeded(t) == Done(t) /\ calls[t].resp.code = 200

InEngine(t) == calls[t].pc \in {"seed", "monthly", "reset", "sloka"}

\* v is a str of exactly n ASCII digits
IsAsciiDigits(v, n) ==
    v.t = "str" /\ Len(v.s) = n /\ \A i \in 1..Len(v.s) : v.s[i] \in AsciiDigits

\* the required fields that are absent from the payload or empty, in the
\* order name, birth_date, birth_time, birth_place
AbsentOrEmpty(data) ==
    SelectSeq(<<"name", "birth_date", "birth_time", "birth_place">>,
              LAMBDA f : data.json = "null" \/ data[f].t = "absent"
                           \/ (data[f].t = "str" /\ Len(data[f].s) = 0))

Range(seq) == {seq[i] : i \in DOMAIN seq}

\* C1 as stated: the scenario request {Test, 15081990, 1230, Delhi} yields
\* sign Leo, ascendant Libra, nakshatra Anuradha, lucky color Blue and lucky
\* day Wednesday.
C1_ScenarioAnuradha ==
    \A t \in Threads :
        Done(t) /\ calls[t].data = P_test =>
            /\ calls[t].resp.code = 200
            /\ calls[t].result.chart_info.zodiac_sign = "Leo"
            /\ calls[t].result.chart_info.ascendant = "Libra"
            /\ calls[t].result.chart_info.nakshatra = "Anuradha"
            /\ calls[t].result.lucky_elements.lucky_color = "Blue"
            /\ calls[t].result.lucky_elements.lucky_day = "Wednesday"

\* C1 amended: the scenario request yields sign Leo, ascendant Libra,
\* nakshatra Swati, which is the entry at 0-based index (15-1) mod 27 = 14 of
\* the list (Anuradha is the entry at index 16), lucky color Blue, the color
\* of lucky_num (15+8) mod 9 = 5, and lucky day Wednesday, the day of
\* (15+8) mod 7 = 2; the response carries the same values.
C1_ScenarioSwati ==
    \A t \in Threads :
        Done(t) /\ calls[t].data = P_test =>
            /\ calls[t].resp.code = 200
            /\ calls[t].result.chart_info.zodiac_sign = "Leo"
            /\ calls[t].result.chart_info.ascendant = "Libra"
            /\ calls[t].result.chart_info.nakshatra = "Swati"
            /\ calls[t].result.chart_info.nakshatra = nakshatras[((15 - 1) % 27) + 1]
            /\ nakshatras[16 + 1] = "Anuradha"
            /\ calls[t].result.lucky_elements.lucky_color = "Blue"
            /\ calls[t].result.lucky_elements.lucky_color = color_map[(15 + 8) % 9]
            /\ calls[t].result.lucky_elements.lucky_day = "Wednesday"
            /\ calls[t].result.lucky_elements.lucky_day = day_map[(15 + 8) % 7]
            /\ calls[t].resp.body.data.chart_info = calls[t].result.chart_info
            /\ calls[t].resp.body.data.lucky_elements = calls[t].result.lucky_elements

\* the scenario request has been answered
C1_Witness == \E t \in Threads : Succeeded(t) /\ calls[t].data = P_test

\* C2: two generate_predictions calls with the same name, birth_date and
\* birth_time that read the same current date return the same overview, the
\* same 12 monthly entries and the same remedies, whatever calls were made
\* in between; the sloka may differ.
C2_Deterministic ==
    \A s, t \in Threads :
        /\ Succeeded(s) /\ Succeeded(t)
        /\ calls[s].data.name = calls[t].data.name
        /\ calls[s].data.birth_date = calls[t].data.birth_date
        /\ calls[s].data.birth_time = calls[t].data.birth_time
        /\ calls[s].current_date = calls[t].current_date
        => /\ calls[s].result.predictions.overview = calls[t].result.predictions.overview
           /\ calls[s].result.predictions.monthly = calls[t].result.predictions.monthly
           /\ Len(calls[s].result.predictions.monthly) = 12
           /\ calls[s].result.predictions.remedies = calls[t].result.predictions.remedies

\* two calls with the same input and date have returned, with different
\* slokas
C2_Witness ==
    \E s, t \in Threads :
        /\ s # t /\ Succeeded(s) /\ Succeeded(t)
        /\ calls[s].data = calls[t].data
        /\ calls[s].current_date = calls[t].current_date
        /\ calls[s].result.sanskrit_sloka # calls[t].result.sanskrit_sloka

\* C3: no call draws its sloka while the random source holds a state set by
\* another call's random.seed(seed).
C3_NoForeignSeedAtDraw ==
    \A t \in Threads :
        Succeeded(t) => ~(calls[t].sloka_rng.seeded /\ calls[t].sloka_rng.by # t)

\* C4: in one call the random source is seeded from sum(character codes of
\* name) + day + month, the 12 monthly entries are built under that seed,
\* the source is reset, and only then the sloka is drawn; with calls made one
\* after the other the source is unseeded whenever no call is running, and
\* no sloka was drawn from a seeded state.
C4_SeedBuildResetDraw ==
    /\ \A t \in Threads :
        /\ calls[t].pc = "monthly" =>
              rng = random_seed(SumOrd(calls[t].data.name.s) + calls[t].day + calls[t].month, t)
        /\ calls[t].pc = "reset" =>
              /\ rng = random_seed(SumOrd(calls[t].data.name.s) + calls[t].day + calls[t].month, t)
              /\ Len(calls[t].monthly) = 12
        /\ calls[t].pc = "sloka" => ~rng.seeded /\ Len(calls[t].monthly) = 12
        /\ Succeeded(t) => ~calls[t].sloka_rng.seeded
    /\ (\A t \in Threads : calls[t].pc \in {"idle", "done"}) => ~rng.seeded

\* two calls have returned one after the other and the source is unseeded
C4_Witness ==
    /\ \A t \in Threads : Succeeded(t)
    /\ \E s, t \in Threads : calls[s].data # calls[t].data
    /\ ~rng.seeded

\* C5: a request with all four fields present whose birth_date is not
\* exactly 8 ASCII digits is answered 400 with the birth date format
\* message, one whose birth_time is not exactly 4 ASCII digits with 400 and
\* the birth date or birth time format message, and the engine is not
\* called.
C5_MalformedRejected ==
    \A t \in Threads :
        Done(t) /\ calls[t].data.json = "object" /\ Len(AbsentOrEmpty(calls[t].data)) = 0 =>
            /\ ~IsAsciiDigits(calls[t].data.birth_date, 8) =>
                  /\ calls[t].resp.code = 400
                  /\ calls[t].resp.body.message = "Birth date must be in DDMMYYYY format"
                  /\ ~calls[t].engine_called
            /\ ~IsAsciiDigits(calls[t].data.birth_time, 4) =>
                  /\ calls[t].resp.code = 400
                  /\ calls[t].resp.body.message \in
                        {"Birth date must be in DDMMYYYY format",
                         "Birth time must be in HHMM format (24-hour)"}
                  /\ ~calls[t].engine_called

\* C6: a request in which a required field is absent or empty, or that has
\* no JSON object at all, is answered 400 with the message naming the first
\* such field, and the engine is not called.
C6_MissingRejected ==
    \A t \in Threads :
        Done(t) /\ Len(AbsentOrEmpty(calls[t].data)) > 0 =>
            /\ calls[t].resp.code = 400
            /\ calls[t].resp.body.message =
                  "Missing required field: " \o Head(AbsentOrEmpty(calls[t].data))
            /\ ~calls[t].engine_called

\* a monthly entry with its seven fields, none empty
FullEntry(e) ==
    /\ DOMAIN e = {"month", "career", "finance", "relationships", "health",
                   "auspicious_days", "special_notes"}
    /\ \A f \in DOMAIN e : e[f] # ""

\* a fully populated bundle
FullBundle(b) ==
    /\ b.predictions.overview # ""
    /\ Len(b.predictions.monthly) = 12
    /\ \A k \in 1..12 : FullEntry(b.predictions.monthly[k])
    /\ Len(b.predictions.remedies) > 0
    /\ \A k \in DOMAIN b.predictions.remedies : b.predictions.remedies[k] # ""
    /\ b.chart_info.zodiac_sign \in DOMAIN zodiac_characteristics
    /\ b.chart_info.ascendant \in DOMAIN zodiac_characteristics
    /\ b.chart_info.nakshatra \in Range(nakshatras)
    /\ Len(b.lucky_elements.lucky_number) > 0
    /\ b.lucky_elements.lucky_color # ""
    /\ b.lucky_elements.lucky_day # ""
    /\ b.sanskrit_sloka \in Range(sanskrit_slokas)

\* C7: a request that passes validation (name and birth_place not empty,
\* birth_date 8 ASCII digits, birth_time 4 ASCII digits, any day, month and
\* hour 00-99) never ends in an exception, and its response carries a fully
\* populated bundle.
C7_TotalOnValidInput ==
    \A t \in Threads :
        /\ calls[t].pc # "idle"
        /\ Len(AbsentOrEmpty(calls[t].data)) = 0
        /\ IsAsciiDigits(calls[t].data.birth_date, 8)
        /\ IsAsciiDigits(calls[t].data.birth_time, 4)
        => /\ ~calls[t].raised
           /\ Done(t) =>
                /\ calls[t].resp.code = 200
                /\ FullBundle(calls[t].result)
                /\ FullBundle(calls[t].resp.body.data)

\* day 99, month 99, hour 99 has been answered with a bundle
C7_Witness ==
    \E t \in Threads :
        /\ Succeeded(t)
        /\ calls[t].data.birth_date = Str(<<"9", "9", "9", "9", "1", "9", "9", "0">>)
        /\ calls[t].data.birth_time = Str(<<"9", "9", "3", "0">>)

DocumentedRanges ==
    {[sign |-> "Aries", from |-> <<3, 21>>, to |-> <<4, 19>>],
     [sign |-> "Taurus", from |-> <<4, 20>>, to |-> <<5, 20>>],
     [sign |-> "Gemini", from |-> <<5, 21>>, to |-> <<6, 20>>],
     [sign |-> "Cancer", from |-> <<6, 21>>, to |-> <<7, 22>>],
     [sign |-> "Leo", from |-> <<7, 23>>, to |-> <<8, 22>>],
     [sign |-> "Virgo", from |-> <<8, 23>>, to |-> <<9, 22>>],
     [sign |-> "Libra", from |-> <<9, 23>>, to |-> <<10, 22>>],
     [sign |-> "Scorpio", from |-> <<10, 23>>, to |-> <<11, 21>>],
     [sign |-> "Sagittarius", from |-> <<11, 22>>, to |-> <<12, 21>>],
     [sign |-> "Capricorn", from |-> <<12, 22>>, to |-> <<1, 19>>],
     [sign |-> "Aquarius", from |-> <<1, 20>>, to |-> <<2, 18>>],
     [sign |-> "Pisces", from |-> <<2, 19>>, to |-> <<3, 20>>]}

\* p is not after q in the calendar
NotAfter(p, q) == p[1] < q[1] \/ (p[1] = q[1] /\ p[2] <= q[2])

\* (month, day) lies in range r, which may run over the end of the year
InRange(r, month, day) ==
    IF NotAfter(r.from, r.to)
    THEN NotAfter(r.from, <<month, day>>) /\ NotAfter(<<month, day>>, r.to)
    ELSE NotAfter(r.from, <<month, day>>) \/ NotAfter(<<month, day>>, r.to)

\* C9: for month 1..12 and day 1..31 calculate_zodiac_sign returns one of
\* the 12 signs, exactly one documented range contains the date, and the
\* sign returned is that range's.
C9_ZodiacRanges ==
    \A t \in Threads :
        InEngine(t) /\ calls[t].month \in 1..12 /\ calls[t].day \in 1..31 =>
            LET holding == {r \in DocumentedRanges : InRange(r, calls[t].month, calls[t].day)}
            IN  /\ calls[t].zodiac[1] \in DOMAIN zodiac_characteristics
                /\ Cardinality(holding) = 1
                /\ \A r \in holding : calls[t].zodiac[1] = r.sign

\* 21 March has been computed as Aries
C9_Witness ==
    \E t \in Threads :
        InEngine(t) /\ calls[t].month = 3 /\ calls[t].day = 21 /\ calls[t].zodiac[1] = "Aries"

\* C10: the remedies list has 5 entries when the sign's element is Fire or
\* Water and 4 when it is Earth or Air, for every sign and nakshatra the
\* engine computes.
C10_RemediesLength ==
    \A t \in Threads :
        Succeeded(t) =>
            LET n == Len(calls[t].result.predictions.remedies)
                element == zodiac_characteristics[calls[t].result.chart_info.zodiac_sign].element
            IN  /\ n \in {4, 5}
                /\ n = 5 <=> element \in {"Fire", "Water"}
                /\ n = 4 <=> element \in {"Earth", "Air"}

\* a call has returned 4 remedies for day 31
C10_Witness ==
    \E t \in Threads :
        /\ Succeeded(t)
        /\ Len(calls[t].result.predictions.remedies) = 4
        /\ calls[t].result.chart_info.nakshatra = "Rohini"
        /\ Prefix(calls[t].data.birth_date.s, 2) = <<"3", "1">>

\* the label of the calendar month that lies k months after the month of day
\* number current_date
CalendarMonthLabel(current_date, k) ==
    LET ym == YearMonthFrom(current_date, 2025, 1)
        m0 == (ym[2] - 1) + k
    IN  MonthNames[(m0 % 12) + 1] \o " " \o ToString(ym[1] + (m0 \div 12))

\* C11: the 12 monthly entries of a bundle are labelled with 12 distinct,
\* consecutive calendar months that start with the month of the date the
\* call read from the clock.
C11_ConsecutiveMonths ==
    \A t \in Threads :
        Succeeded(t) =>
            LET monthly == calls[t].result.predictions.monthly
            IN  /\ Len(monthly) = 12
                /\ \A j, k \in 1..12 : j # k => monthly[j].month # monthly[k].month
                /\ \A k \in 1..12 :
                     monthly[k].month = CalendarMonthLabel(calls[t].current_date, k - 1)

\* what a service does when it yields no usable result
FailingOutcomes == ServiceOutcomes \ {"ok"}

\* language codes to translate to: those of the server, and one it does not
\* know
TargetLanguages == DOMAIN languages \cup {"fr"}

\* C12: translate_text_simple returns the original text whenever neither
\* service yields a usable result (each raises, answers a non-200 status or
\* a body without the expected key), for every text of a bundle and every
\* target language; for 'en' it returns the text and sends no request.  A
\* request whose translation failed throughout is answered 200 with the
\* texts the engine produced, no exception raised.
C12_TranslationFallsBack ==
    \A t \in Threads :
        Succeeded(t) =>
            /\ ~calls[t].raised
            /\ \A text \in translated_texts(calls[t].result.predictions) :
                 /\ \A svc \in [mymemory : FailingOutcomes, libre : FailingOutcomes],
                       target_language \in TargetLanguages :
                         translate_text_simple(text, target_language, svc) = text
                 /\ \A svc \in [mymemory : ServiceOutcomes, libre : ServiceOutcomes] :
                         /\ translate_text_simple(text, "en", svc) = text
                         /\ translate_requests(text, "en", svc) = <<>>
            /\ (\A r \in calls[t].translation.requests : ~r.usable) =>
                  calls[t].resp.body.data.predictions = calls[t].result.predictions
            /\ language_of(calls[t].data) = "en" =>
                  /\ calls[t].translation.requests = {}
                  /\ calls[t].resp.body.data.predictions = calls[t].result.predictions

\* a Hindi request has been answered after both services were asked and
\* neither gave a usable result
C12_Witness ==
    \E t \in Threads :
        /\ Succeeded(t)
        /\ language_of(calls[t].data) = "hi"
        /\ calls[t].translation.requests =
             {[service |-> "mymemory", target |-> "hi", usable |-> FALSE],
              [service |-> "libretranslate", target |-> "hi", usable |-> FALSE]}
        /\ calls[t].resp.body.data.predictions = calls[t].result.predictions

\* the language codes the server has a name for
KnownLanguages == {"en", "hi", "bn", "ta", "te", "mr", "gu", "kn"}

\* C13 as stated: for a language code outside the known ones the response's
\* language_name is 'English', its language is the code, translate_text_simple
\* is called with the code and attempts the external service.
C13_UnknownCodeAttemptsService ==
    \A t \in Threads :
        Succeeded(t) /\ language_of(calls[t].data) \notin KnownLanguages =>
            /\ calls[t].resp.body.data.language_name = "English"
            /\ calls[t].resp.body.data.language = language_of(calls[t].data)
            /\ calls[t].translation.adapter = {language_of(calls[t].data)}
            /\ calls[t].translation.requests # {}

\* C13 amended: for a language code outside the known ones the response's
\* language_name is 'English', its language is the code, and
\* translate_text_simple is called with the code; it maps the code to 'en',
\* sends no request to any external service and returns every text
\* unchanged, so the response carries the engine's English texts.
C13_UnknownCodeNoService ==
    \A t \in Threads :
        Succeeded(t) /\ language_of(calls[t].data) \notin KnownLanguages =>
            /\ calls[t].resp.body.data.language_name = "English"
            /\ calls[t].resp.body.data.language = language_of(calls[t].data)
            /\ calls[t].translation.adapter = {language_of(calls[t].data)}
            /\ calls[t].translation.requests = {}
            /\ calls[t].resp.body.data.predictions = calls[t].result.predictions

\* a request with language 'fr' has been answered
C13_Witness ==
    \E t \in Threads :
        /\ Succeeded(t)
        /\ calls[t].data = P_french
        /\ calls[t].resp.body.data.language = "fr"

\* the planet whose remedies the claim assigns to a sign: the part of the
\* ruler name before '/'
ClaimedPlanet(sign) ==
    CASE sign = "Scorpio" -> "Mars"
      [] sign = "Aquarius" -> "Saturn"
      [] sign = "Pisces" -> "Jupiter"
      [] OTHER -> zodiac_characteristics[sign].ruler

\* C14: the remedies returned are, in order, the 3 remedy strings of the
\* sign's ruling planet (Mars for Scorpio, Saturn for Aquarius, Jupiter for
\* Pisces), one remedy naming the nakshatra's deity, and, if and only if the
\* sign's element is Fire or Water, one element-specific remedy; for a sign
\* with no matching ruler key Jupiter's list is used.
C14_RemediesOrder ==
    \A t \in Threads :
        Succeeded(t) =>
            LET sign == calls[t].result.chart_info.zodiac_sign
                nakshatra == calls[t].result.chart_info.nakshatra
                remedies == calls[t].result.predictions.remedies
                element == zodiac_characteristics[sign].element
                deity_remedy == "Offer prayers to " \o nakshatra_influences[nakshatra].deity
                                  \o " during important decisions"
                unmatched == generate_personalized_remedies("Ophiuchus", nakshatra,
                                                            calls[t].data, ruler_remedies).remedies
            IN  /\ ClaimedPlanet(sign) \in DOMAIN ruler_remedies_literal
                /\ Len(ruler_remedies_literal[ClaimedPlanet(sign)]) = 3
                /\ Len(remedies) >= 4
                /\ SubSeq(remedies, 1, 3) = ruler_remedies_literal[ClaimedPlanet(sign)]
                /\ remedies[4] = deity_remedy
                /\ Len(remedies) = (IF element \in {"Fire", "Water"} THEN 5 ELSE 4)
                /\ element = "Fire" => remedies[5] = "Practice Surya Namaskar daily"
                /\ element = "Water" => remedies[5] = "Perform abhishekam to Shiva lingam with water"
                /\ unmatched = ruler_remedies_literal["Jupiter"] \o <<deity_remedy>>

\* a Scorpio, whose ruler is 'Mars/Pluto', has got the Mars remedies, the
\* deity remedy and the Water remedy
C14_Witness ==
    \E t \in Threads :
        /\ Succeeded(t)
        /\ calls[t].result.chart_info.zodiac_sign = "Scorpio"
        /\ calls[t].result.predictions.remedies[1] = "Chant Hanuman Chalisa on Tuesdays"
        /\ Len(calls[t].result.predictions.remedies) = 5

Elements == {"Fire", "Earth", "Air", "Water"}

\* the four facets of a monthly entry, each with its template dict for a sign
FacetTemplates(sign) ==
    [career |-> career_templates(sign), finance |-> finance_templates(sign),
     relationships |-> relationship_templates(sign), health |-> health_templates(sign)]

\* C15: for every month index i in 0..11 and every facet, the facet text of
\* entry i is element i mod 3 of the template list for the element of the
\* sign; each of the 4 elements has exactly 3 templates for every facet, so
\* entries i and i+3 carry the same facet texts.
C15_FacetByMonthMod3 ==
    \A t \in Threads :
        Succeeded(t) =>
            LET sign == calls[t].result.chart_info.zodiac_sign
                monthly == calls[t].result.predictions.monthly
                element == zodiac_characteristics[sign].element
            IN  /\ element \in Elements
                /\ \A facet \in DOMAIN FacetTemplates(sign) :
                     /\ DOMAIN FacetTemplates(sign)[facet] = Elements
                     /\ \A e \in Elements : Len(FacetTemplates(sign)[facet][e]) = 3
                     /\ \A i \in 0..11 :
                          monthly[i + 1][facet] = FacetTemplates(sign)[facet][element][(i % 3) + 1]
                     /\ \A i \in 0..8 : monthly[i + 1][facet] = monthly[i + 4][facet]

\* an Air sign has been answered: its entries 0 and 3 carry the same career
\* text, which names the sign's second trait, and entry 1 another one
C15_Witness ==
    \E t \in Threads :
        /\ Succeeded(t)
        /\ calls[t].result.chart_info.zodiac_sign = "Gemini"
        /\ calls[t].result.predictions.monthly[1].career =
             "Communication and networking will open new doors. Your curious nature helps in changing environments."
        /\ calls[t].result.predictions.monthly[4].career = calls[t].result.predictions.monthly[1].career
        /\ calls[t].result.predictions.monthly[2].career # calls[t].result.predictions.monthly[1].career

\* the day and month the engine parses from the birth date of t's request
BirthDay(t) == engine_parse(calls[t].data).day

BirthMonth(t) == engine_parse(calls[t].data).month

\* the special_notes string of every entry i is candidate i mod 3 of the 3
\* notes built for the sign and the nakshatra
SpecialNotesByMonth(t) ==
    LET sign == calls[t].result.chart_info.zodiac_sign
        nakshatra == calls[t].result.chart_info.nakshatra
        monthly == calls[t].result.predictions.monthly
    IN  /\ Len(notes(sign, nakshatra)) = 3
        /\ \A i \in 0..11 : monthly[i + 1].special_notes = notes(sign, nakshatra)[(i % 3) + 1]

\* C16 as stated: in every entry the special_notes string and the
\* auspicious_days string are each chosen by the month index from a list of
\* candidates, index month_index mod list_length: entries carry the same
\* string exactly when their indexes agree modulo the length of a list of
\* several candidates.
C16_BothChosenByMonth ==
    \A t \in Threads :
        Succeeded(t) =>
            LET monthly == calls[t].result.predictions.monthly
            IN  /\ SpecialNotesByMonth(t)
                /\ \E list_length \in 2..12 :
                     \A i, j \in 0..11 :
                        (monthly[i + 1].auspicious_days = monthly[j + 1].auspicious_days)
                          <=> (i % list_length = j % list_length)

\* C16 amended: the special_notes string of entry i is candidate i mod 3 of
\* a list of 3 notes; the auspicious_days string is not chosen from a list:
\* it names the three day numbers ((birth_day + k) mod 28) + 1, k = 0, 1, 2,
\* and is the same in all 12 entries, whatever the month index.
C16_NotesByMonthDaysFixed ==
    \A t \in Threads :
        Succeeded(t) =>
            LET monthly == calls[t].result.predictions.monthly
                d == BirthDay(t)
                days == ToString((d % 28) + 1) \o ", " \o ToString(((d + 1) % 28) + 1)
                          \o ", " \o ToString(((d + 2) % 28) + 1)
            IN  /\ SpecialNotesByMonth(t)
                /\ \A i \in 0..11 : monthly[i + 1].auspicious_days = days

\* a request with birth day 15 has been answered: 12 entries with the days
\* 16, 17, 18 and special notes that differ from entry 0 to entry 1
C16_Witness ==
    \E t \in Threads :
        /\ Succeeded(t)
        /\ BirthDay(t) = 15
        /\ calls[t].result.predictions.monthly[1].auspicious_days = "16, 17, 18"
        /\ calls[t].result.predictions.monthly[12].auspicious_days = "16, 17, 18"
        /\ calls[t].result.predictions.monthly[1].special_notes
             # calls[t].result.predictions.monthly[2].special_notes

\* the hour the engine parses from the birth time of t's request
BirthHour(t) == engine_parse(calls[t].data).hour

\* the signs of the 2-hour buckets, from hours 0-1 on
BucketSigns ==
    <<"Aries", "Taurus", "Gemini", "Cancer", "Leo", "Virgo", "Libra", "Scorpio",
      "Sagittarius", "Capricorn", "Aquarius", "Pisces">>

\* C17: for every hour in 0..23 the ascendant is the table entry of the
\* greatest key in {0, 2, ..., 22} that is <= hour, the entry of
\* 2*floor(hour/2): hours 0-1 Aries, 2-3 Taurus, ..., 22-23 Pisces.
C17_AscendantBuckets ==
    \A t \in Threads :
        Succeeded(t) /\ BirthHour(t) \in 0..23 =>
            LET hour == BirthHour(t)
                keys == {k \in {2 * b : b \in 0..11} : k <= hour}
                greatest == CHOOSE k \in keys : \A j \in keys : j <= k
            IN  /\ DOMAIN ascendant_map = {2 * b : b \in 0..11}
                /\ greatest = 2 * (hour \div 2)
                /\ calls[t].result.chart_info.ascendant = ascendant_map[greatest][1]
                /\ calls[t].result.chart_info.ascendant_sanskrit = ascendant_map[greatest][2]
                /\ calls[t].result.chart_info.ascendant = BucketSigns[(hour \div 2) + 1]

\* a birth at hour 23 has been given the ascendant Pisces
C17_Witness ==
    \E t \in Threads :
        /\ Succeeded(t)
        /\ BirthHour(t) = 23
        /\ calls[t].result.chart_info.ascendant = "Pisces"

\* C18: for every day in 1..31 the nakshatra is the entry at index
\* (day-1) mod 27 of the ordered list of 27 names, Ashwini first and Revati
\* last, so days 28..31 get the names of days 1..4.
C18_NakshatraMod27 ==
    \A t \in Threads :
        Succeeded(t) /\ BirthDay(t) \in 1..31 =>
            LET day == BirthDay(t)
            IN  /\ Len(nakshatras) = 27
                /\ nakshatras[1] = "Ashwini"
                /\ nakshatras[27] = "Revati"
                /\ calls[t].result.chart_info.nakshatra = nakshatras[((day - 1) % 27) + 1]
                /\ day \in 28..31 =>
                     /\ calculate_nakshatra(day - 27).ok
                     /\ calls[t].result.chart_info.nakshatra = calculate_nakshatra(day - 27).val
                     /\ calls[t].result.chart_info.nakshatra \in
                          {"Ashwini", "Bharani", "Krittika", "Rohini"}

\* a birth on day 28 has been given Ashwini, the nakshatra of day 1
C18_Witness ==
    \E t \in Threads :
        /\ Succeeded(t)
        /\ BirthDay(t) = 28
        /\ calls[t].result.chart_info.nakshatra = "Ashwini"

\* the weekday table of the claim, from 0
Weekdays ==
    <<"Monday", "Tuesday", "Wednesday", "Thursday", "Friday", "Saturday", "Sunday">>

\* C19: for every day and month, lucky_num is (day+month) mod 9 with 0
\* remapped to 9; the number set and the color are the ones stored under
\* lucky_num, and the weekday is the one stored under (day+month) mod 7,
\* 0 being Monday and 6 Sunday.
C19_LuckyElements ==
    \A t \in Threads :
        Succeeded(t) =>
            LET sum == BirthDay(t) + BirthMonth(t)
                lucky_num == IF sum % 9 = 0 THEN 9 ELSE sum % 9
                lucky == calls[t].result.lucky_elements
            IN  /\ lucky_num \in DOMAIN lucky_numbers
                /\ lucky_num \in DOMAIN color_map
                /\ lucky.lucky_number = lucky_numbers[lucky_num]
                /\ lucky.lucky_color = color_map[lucky_num]
                /\ DOMAIN day_map = 0..6
                /\ lucky.lucky_day = day_map[sum % 7]
                /\ lucky.lucky_day = Weekdays[(sum % 7) + 1]
                /\ calls[t].resp.body.data.lucky_elements = lucky

\* a birth on day 1 of month 8, where (day+month) mod 9 is 0, has been given
\* the entries of 9: Gold and 3, 6, 9
C19_Witness ==
    \E t \in Threads :
        /\ Succeeded(t)
        /\ BirthDay(t) = 1 /\ BirthMonth(t) = 8
        /\ calls[t].result.lucky_elements.lucky_color = "Gold"
        /\ calls[t].result.lucky_elements.lucky_number = <<3, 6, 9>>

\* C20: the overview is the opening sentence at index birth_number mod 3 of
\* the 3 templates, birth_number being day mod 9 with 0 mapped to 9,
\* followed by the sentence keyed by the sign's element; the element of each
\* of the 12 signs is Fire, Earth, Air or Water, and the generic sentence is
\* appended only for a sign outside the table.
C20_OverviewSelection ==
    \A t \in Threads :
        Succeeded(t) =>
            LET day == BirthDay(t)
                birth_number == IF day % 9 = 0 THEN 9 ELSE day % 9
                sign == calls[t].result.chart_info.zodiac_sign
                ascendant == calls[t].result.chart_info.ascendant
                nakshatra == calls[t].result.chart_info.nakshatra
                openings == overview_templates(sign, ascendant, nakshatra)
                unknown == generate_personalized_overview("Ophiuchus", ascendant, nakshatra,
                                                          calls[t].data)
            IN  /\ Len(openings) = 3
                /\ DOMAIN element_influences = Elements
                /\ \A s \in DOMAIN zodiac_characteristics :
                     zodiac_characteristics[s].element \in Elements
                /\ sign \in DOMAIN zodiac_characteristics
                /\ zodiac_characteristics[sign].element \in DOMAIN element_influences
                /\ calls[t].result.predictions.overview =
                     openings[(birth_number % 3) + 1]
                       \o element_influences[zodiac_characteristics[sign].element]
                /\ unknown =
                     overview_templates("Ophiuchus", ascendant, nakshatra)[(birth_number % 3) + 1]
                       \o "Planetary movements favor personal and professional development."

\* a Scorpio born on day 9 (birth_number 9, index 0) at noon has got the
\* first opening and the Water sentence
C20_Witness ==
    \E t \in Threads :
        /\ Succeeded(t)
        /\ BirthDay(t) = 9
        /\ calls[t].result.predictions.overview =
             "Based on your Scorpio Sun sign and Libra Ascendant, 2025-2026 brings significant planetary shifts. "
               \o "The Moon's cycles will deepen your intuition and emotional connections throughout the year."

\* C21: whatever calls came before on the same engine, a call's remedies are
\* those of its sign and nakshatra computed from the ruler lists as written
\* in the source: the deity and element remedies appended by earlier calls
\* are in no later call's list, and two calls with the same sign and
\* nakshatra return the same remedies.
C21_RemediesDoNotAccumulate ==
    /\ \A t \in Threads :
         Succeeded(t) =>
            LET sign == calls[t].result.chart_info.zodiac_sign
                nakshatra == calls[t].result.chart_info.nakshatra
                remedies == calls[t].result.predictions.remedies
            IN  /\ remedies = generate_personalized_remedies(
                                 sign, nakshatra, calls[t].data, ruler_remedies_literal).remedies
                /\ Len(remedies) <= 5
                /\ \A i, j \in DOMAIN remedies : i # j => remedies[i] # remedies[j]
    /\ \A s, t \in Threads :
         /\ Succeeded(s) /\ Succeeded(t)
         /\ calls[s].result.chart_info.zodiac_sign = calls[t].result.chart_info.zodiac_sign
         /\ calls[s].result.chart_info.nakshatra = calls[t].result.chart_info.nakshatra
         => calls[s].result.predictions.remedies = calls[t].result.predictions.remedies

\* two calls for the same Leo have returned one after the other, each with
\* 5 remedies, and the dict the later call left behind holds its Sun list
\* with the two appended remedies
C21_Witness ==
    /\ \A t \in Threads :
         /\ Succeeded(t)
         /\ calls[t].data = P_test
         /\ Len(calls[t].result.predictions.remedies) = 5
    /\ Len(ruler_remedies["Sun"]) = 5

\* C22: every temporary file a PDF request created is gone when the request
\* is answered, whatever the path: rendering done, generate_pdf False, or
\* an exception while the HTML is built or the file is read.
C22_TempFileDeleted ==
    \A t \in Threads :
        pdf_calls[t].pc = "done" /\ pdf_calls[t].created =>
            pdf_calls[t].pdf_path \notin temp_files

\* the webhook request of thread t has been answered
HookDone(t) == hook_calls[t].pc = "done"

\* C23: the webhook answers success only if the signature header equals the
\* HMAC-SHA256 hex digest, under the configured key, of the payload's values
\* concatenated in key-sorted order; with the header absent, the key not
\* configured or a payload that is no JSON object the verification gives
\* False and the answer is 401, orderId and orderStatus unread.
C23_WebhookSignature ==
    \A t \in Threads :
        HookDone(t) =>
            LET c == hook_calls[t]
            IN  /\ c.resp.code \in {200, 401}
                /\ c.resp.code = 200 =>
                     /\ c.resp.body.status = "success"
                     /\ CASHFREE_SECRET_KEY # NoKey
                     /\ c.data.json = "object"
                     /\ c.signature = hexdigest(CASHFREE_SECRET_KEY, signature_data(c.data))
                     /\ c.data = W_paid => c.signature.msg = "100o1PAID"
                /\ (c.signature = NoSignature \/ CASHFREE_SECRET_KEY = NoKey
                      \/ c.data.json # "object") =>
                     /\ ~c.verified
                     /\ c.resp.code = 401
                     /\ ~c.read_order
                /\ c.resp.code = 401 => ~c.verified /\ ~c.read_order

\* a paid order with the right signature has been accepted, and the same
\* payload signed under another key refused
C23_Witness ==
    \E s, t \in Threads :
        /\ HookDone(s) /\ HookDone(t)
        /\ hook_calls[s].data = W_paid /\ hook_calls[s].resp.code = 200
        /\ hook_calls[s].signature = hexdigest("secret", "100o1PAID")
        /\ hook_calls[t].data = W_paid /\ hook_calls[t].resp.code = 401
        /\ hook_calls[t].signature = hexdigest("guess", "100o1PAID")

\* C24: for every day and month lucky_num lies in 1..9 and is a member of
\* the lucky_number list returned; the three lookups find their keys, so
\* none of the defaults [lucky_num], 'Blue', 'Thursday' comes out of the
\* fallback of a lookup.
C24_LuckyNumInRange ==
    \A t \in Threads :
        Succeeded(t) =>
            LET day == BirthDay(t)
                month == BirthMonth(t)
                lucky_num == lucky_num_of(day, month)
                lucky == calls[t].result.lucky_elements
            IN  /\ lucky_num \in 1..9
                /\ \E k \in DOMAIN lucky.lucky_number : lucky.lucky_number[k] = lucky_num
                /\ Len(lucky.lucky_number) = 3
                /\ lucky_num \in DOMAIN lucky_numbers
                /\ lucky_num \in DOMAIN color_map
                /\ (day + month) % 7 \in DOMAIN day_map
                /\ lucky.lucky_color = "Blue" => lucky_num = 5
                /\ lucky.lucky_day = "Thursday" => (day + month) % 7 = 3

\* day 99 of month 99, where (day+month) mod 9 is 0, has been answered with
\* the list that holds 9
C24_Witness ==
    \E t \in Threads :
        /\ Succeeded(t)
        /\ BirthDay(t) = 99 /\ BirthMonth(t) = 99
        /\ lucky_num_of(BirthDay(t), BirthMonth(t)) = 9
        /\ calls[t].result.lucky_elements.lucky_number = <<3, 6, 9>>

\* C25: for every birth day d in 0..99 the auspicious_days string names the
\* three day numbers (d mod 28)+1, ((d+1) mod 28)+1, ((d+2) mod 28)+1, each
\* in 1..28 and pairwise distinct; month_index and birth_month do not affect
\* it, so the 12 entries of a bundle carry the same string.
C25_AuspiciousDays ==
    \A t \in Threads :
        Succeeded(t) =>
            LET d == BirthDay(t)
                monthly == calls[t].result.predictions.monthly
                first == (d % 28) + 1
                second == ((d + 1) % 28) + 1
                third == ((d + 2) % 28) + 1
            IN  /\ {first, second, third} \subseteq 1..28
                /\ Cardinality({first, second, third}) = 3
                /\ \A i \in 0..11, birth_month \in {0, 1, 12, 99} :
                     generate_auspicious_days(d, birth_month, i)
                       = ToString(first) \o ", " \o ToString(second) \o ", " \o ToString(third)
                /\ \A i \in 1..12 :
                     /\ monthly[i].auspicious_days = generate_auspicious_days(d, BirthMonth(t), 0)
                     /\ monthly[i].auspicious_days = monthly[1].auspicious_days

\* a birth on day 27 has been answered: the days wrap from 28 to 1 and are
\* the same in the first and the last entry
C25_Witness ==
    \E t \in Threads :
        /\ Succeeded(t)
        /\ BirthDay(t) = 27
        /\ calls[t].result.predictions.monthly[1].auspicious_days = "28, 1, 2"
        /\ calls[t].result.predictions.monthly[12].auspicious_days = "28, 1, 2"

====
